---- MODULE Spec2Model ----
(***************************************************************************)
(* The request/response core of xgb (src/xgb.go, lines 1-470, and the      *)
(* cookie methods of src/unnamed/part_014, lines 41-150): the sequence-id  *)
(* generator, the application's newCookie / newRequest, the sendRequests   *)
(* goroutine, the readResponses goroutine, the cookie channels and the     *)
(* event channel, WaitForEvent and PollForEvent, generateXIds and NewId,   *)
(* Close and the failed reads and writes that follow it; and the dummy     *)
(* net.Conn of the tests (src/dummyNetConn.go): its server goroutine and   *)
(* the methods Close, Write, Read and Control.                             *)
(*                                                                         *)
(* The buffer sizes of src/xgb.go:14-40 are scaled down so that the forced *)
(* round trip and the full event channel are reached; every channel keeps  *)
(* its FIFO order and its blocking send / blocking receive.                *)
(***************************************************************************)
EXTENDS Integers, Sequences, FiniteSets, TLC

\* ---------------------------------------------------------------- bounds
\* cookieBuffer, seqBuffer, reqBuffer and eventBuffer are the channel
\* capacities of src/xgb.go:19,29,33,39 (1000, 5, 100, 500), scaled down.
cookieBuffer == 3
seqBuffer == 1
reqBuffer == 1
eventBuffer == 1
\* number of application goroutines, of application requests and of frames
\* the server sends
NThreads == 2
MaxReqs == 3
MaxFrames == 2
\* largest length field (in 4-byte units) of a reply the server sends
MaxExt == 1
\* a sequence number that no cookie of a run carries
BogusSeq == 40000
\* the sizes of the runs in which the round trip is followed by further
\* requests: one application goroutine, more requests
DrainThreads == 1
DrainReqs == 4
DrainFrames == 2
\* the sizes of the runs that look at the event channel: a larger channel,
\* more frames, fewer requests, and calls of PollForEvent that find nothing
EvCookieBuffer == 2
EvEventBuffer == 2
EvThreads == 1
EvReqs == 2
EvFrames == 3
EvPolls == 1
\* the sizes of the runs in which the connection is closed
ClCookieBuffer == 2
ClThreads == 1
ClReqs == 2
ClFrames == 2
\* the sizes of the runs that look at the cookies in cookieChan: they start
\* shortly before the sequence ids wrap, and the application also calls
\* reply() and Check() on cookies that are not made for them
QCookieBuffer == 2
QThreads == 1
QReqs == 2
QFrames == 2
\* the sizes of the runs in which the server sends replies with a large
\* length field
LenThreads == 1
LenReqs == 2
LenFrames == 2
\* the sizes of the runs in which the error frames read are noted
ErrCookieBuffer == 2
ErrThreads == 1
ErrReqs == 2
ErrFrames == 2
\* the sizes of the runs in which one application goroutine submits requests
\* during a round trip and reads no event
BlkCookieBuffer == 2
BlkThreads == 1
BlkReqs == 4
BlkFrames == 2
\* the sizes of the runs in which the server answers every request that has
\* a reply, in the order of the requests, and every goroutine is scheduled
\* fairly; LiveFrames leaves room for the answers to the round trips too
LiveCookieBuffer == 2
LiveThreads == 1
LiveReqs == 2
LiveFrames == 4
\* the dummy net.Conn: the number of goroutines that call its methods and
\* the number of calls they make
DNCCallers == 3
DNCCalls == 3
\* xidBuffer is the capacity of xidChan (src/xgb.go:24: 5), scaled down;
\* MaxIds is the number of calls of NewId
xidBuffer == 2
MaxIds == 6
\* resource ids are uint32; the masks, the bases and MaxIds are chosen so that
\* no sum reaches 2^16, and the words are cut to 16 bits
XidBits == 16

\* ------------------------------------------------------ program constants
\* sequence ids are uint16: (1<<16)-1 is the last one before the wrap
SeqLast == 65535
\* the fixed frame size read by io.ReadFull(c.conn, buf): 32 bytes, 8 units of 4
HeaderQuads == 8
\* uint32 arithmetic is modulo 2^32; counted in 4-byte units that is 2^30
QuadMod == 1073741824

VARIABLES
    seqid,      \* generateSeqIds: the local seqid (next value to send)
    seqChan,    \* Conn.seqChan
    reqChan,    \* Conn.reqChan
    cookieChan, \* Conn.cookieChan: ids of cookies, oldest first
    eventChan,  \* Conn.eventChan
    cookies,    \* every cookie made so far, by id (its fields and channels)
    tPc, tCk,   \* application goroutines: position and cookie in hand
    sPc, sReq, sDrain, \* sendRequests: position, req, the round-trip cookie
    rPc, rCk,   \* readResponses: position, cookie taken from cookieChan
    buf,        \* readResponses: the 32-byte buffer allocated once (line 306);
                \* kept only while a reply slice that is buf itself is unread
    rErr, rSeq, replyBytes, rEvent, \* readResponses: err, seq, replyBytes, event
    goSend,     \* the detached senders started at src/xgb.go:370
    wire,       \* bytes written to c.conn, in order
    written,    \* ids of the cookies whose request was written, in order
    seqLog,     \* ids of the cookies given a sequence id by sendRequests, in order
    enqLog,     \* ids of the cookies sent to cookieChan, in order
    outLog,     \* ids of the cookies received from cookieChan, in order
    nFrames,    \* number of frames the server has sent
    fate,       \* what the cookie loop did with each cookie
    returned,   \* what reply() / Check() returned for each cookie
    yielded,    \* what WaitForEvent / PollForEvent returned, in order
    base,       \* number of requests written before the run starts
    conf,       \* the sizes of this run (channel capacities, numbers of calls)
    wasFull,    \* eventChan has held cap(c.eventChan) items at some time
    closed,     \* c.conn is closed
    failed,     \* a Read or a Write on c.conn has returned an error
    exited,     \* logger.Fatal has ended the process
    setup,      \* Conn.Setup: ResourceIdMask and ResourceIdBase
    xidChan,    \* Conn.xidChan
    last,       \* generateXIds: the local last
    xPc,        \* generateXIds: position
    xids,       \* what NewId returned, in order
    errLog,     \* the error frames read: sequence number and error number
                \* (kept in the runs that look at them, conf.notes)
    dnc,        \* dummy net.Conn: the locals of its server goroutine
    dCall,      \* dummy net.Conn: the call each calling goroutine is in
    dLog        \* dummy net.Conn: the calls made so far and their results

vars == <<seqid, seqChan, reqChan, cookieChan, eventChan, cookies, tPc, tCk,
          sPc, sReq, sDrain, rPc, rCk, buf, rErr, rSeq, replyBytes, rEvent,
          goSend, wire, written, seqLog, enqLog, outLog, nFrames, fate,
          returned, yielded, base, conf, wasFull, closed, failed, exited,
          setup, xidChan, last, xPc, xids, errLog, dnc, dCall, dLog>>

\* --------------------------------------------------------------- helpers
Threads == 1..NThreads

\* a 32-byte frame: byte 0, byte 1, bytes 2-3 (Get16), bytes 4-7 (Get32), and
\* tag for the remaining bytes
Hdr(b0, b1, seq, len, tag) ==
    [b0 |-> b0, b1 |-> b1, seq |-> seq, len |-> len, tag |-> tag]

ZeroHdr == Hdr(0, 0, 0, 0, 0)

\* the len 4-byte units that follow the header of frame tag on the stream
ExtOf(tag, len) == [i \in 1..len |-> <<tag, i>>]

\* a value sent over eventChan, or held in err / event; t = "nil" is Go's nil
Item(t, seq, tag) == [t |-> t, seq |-> seq, tag |-> tag]
Nil == Item("nil", 0, 0)

\* a []byte reply: the header and the extension read from the stream; alias
\* is TRUE when the slice is buf itself
Bytes(alias, hdr, ext) == [alias |-> alias, hdr |-> hdr, ext |-> ext]
NoBytes == Bytes(FALSE, ZeroHdr, <<>>)

\* what reply() / Check() gave back: kind is "none" before the call returns,
\* then "reply", "error" (the error received), "nil" (nil, nil) or "usage"
Ret(kind, bytes, err) == [kind |-> kind, bytes |-> bytes, err |-> err]
NoRet == Ret("none", NoBytes, Nil)

\* (mutant) the wrap goes to 1, the first id, instead of 0
NextSeq_wrapToOne(s) == IF s = SeqLast THEN 1 ELSE s + 1

\* (mutant) seqid is not stepped
NextSeq_same(s) == s

\* generateSeqIds, lines 235-239
NextSeq(s) == IF s = SeqLast THEN 0 ELSE s + 1

\* (mutant) every cookie that lacks one of the two channels gets a ping
\* channel, also the one that has neither
newCookie_pingAll(checked, reply, drain) ==
    [ Sequence |-> 0,
      hasError |-> checked,
      hasPing  |-> ~(checked /\ reply),
      hasReply |-> reply,
      replyChan |-> <<>>, errorChan |-> <<>>, pingChan |-> <<>>,
      drain |-> drain ]

\* c.newCookie(checked, reply) as src/xgb.go:268-270 and 255 use it: it gives
\* a *cookie whose Sequence sendRequests sets (lines 269, 275; "the sequence
\* number is added to the cookie after it is sent over the request channel",
\* line 253). The newCookie of src/unnamed/part_014:54 is that of an earlier
\* cookie type: it gives a cookie by value, which lines 255 and 270 do not
\* take. The channels are those of part_014:75-86, one place each.
newCookie(checked, reply, drain) ==
    [ Sequence |-> 0,
      hasError |-> checked,
      hasPing  |-> (checked /\ ~reply) \/ (reply /\ ~checked),
      hasReply |-> reply,
      replyChan |-> <<>>, errorChan |-> <<>>, pingChan |-> <<>>,
      drain |-> drain ]

\* the four kinds of cookie
CheckedReply(ck) == ck.hasError /\ ck.hasReply
UncheckedReply(ck) == ~ck.hasError /\ ck.hasReply
CheckedVoid(ck) == ck.hasError /\ ~ck.hasReply
UncheckedVoid(ck) == ~ck.hasError /\ ~ck.hasReply

\* the request buffer of the application request made with cookie id
ReqBuf(id) == << <<id, 1>>, <<id, 2>> >>

\* getInputFocusRequest: opcode 43, request length 1 (in 4-byte units)
getInputFocusRequest == << <<0, 43>>, <<0, 1>> >>

AppCookies == {i \in 1..Len(cookies) : ~cookies[i].drain}

\* the goroutines that call the methods of a dummy net.Conn
DProcs == 1..DNCCallers

\* a goroutine that is in no call
NoCall == [pc |-> "idle", op |-> "none", b |-> 0, stage |-> 0, k |-> 0]

\* newDummyNetConn, src/dummyNetConn.go:59-72: in is s.in, out is nil, the
\* buffer is empty, nothing is locked and nothing fails; the server
\* goroutine waits in its select
newDummyNetConn ==
    [pc |-> "select", cur |-> 0, in |-> TRUE, out |-> FALSE, buf |-> <<>>,
     errorRead |-> FALSE, errorWrite |-> FALSE, lockRead |-> FALSE]

\* the connection as NewConnDisplay leaves it (lines 76-100)
InitFields ==
    /\ seqChan = <<>>
    /\ reqChan = <<>>
    /\ cookieChan = <<>>
    /\ eventChan = <<>>
    /\ cookies = <<>>
    /\ tPc = [t \in Threads |-> "idle"]
    /\ tCk = [t \in Threads |-> 0]
    /\ sPc = "recv" /\ sReq = 0 /\ sDrain = 0
    /\ rPc = "read" /\ rCk = 0
    /\ buf = ZeroHdr
    /\ rErr = Nil /\ rSeq = 0 /\ replyBytes = NoBytes /\ rEvent = Nil
    /\ goSend = <<>>
    /\ wire = <<>> /\ written = <<>> /\ seqLog = <<>> /\ enqLog = <<>>
    /\ outLog = <<>>
    /\ nFrames = 0
    /\ fate = <<>>
    /\ returned = <<>>
    /\ yielded = <<>>
    /\ wasFull = FALSE
    /\ closed = FALSE /\ failed = FALSE /\ exited = FALSE
    /\ xidChan = <<>> /\ last = 0 /\ xPc = "test" /\ xids = <<>>
    /\ errLog = {}
    /\ dCall = [p \in DProcs |-> NoCall]
    /\ dLog = <<>>

\* the connection and a dummy net.Conn as newDummyNetConn leaves it
InitConn ==
    /\ InitFields
    /\ dnc = newDummyNetConn

\* the sizes of a run
Conf(cookies_, events_, threads_, reqs_, kinds_, frames_, polls_) ==
    [cookieBuffer |-> cookies_, eventBuffer |-> events_, threads |-> threads_,
     reqs |-> reqs_, kinds |-> kinds_, frames |-> frames_, polls |-> polls_,
     notes |-> FALSE]

\* the arguments (checked, reply) of newCookie: every kind of request, and
\* every kind but the unchecked request without a reply, and the unchecked
\* kinds
AllKinds == BOOLEAN \X BOOLEAN
DrainKinds == AllKinds \ {<<FALSE, FALSE>>}
UncheckedKinds == {<<FALSE, FALSE>>, <<FALSE, TRUE>>}

\* Conn.Setup as the server sent it: the mask is a contiguous run of bits and
\* the base has none of them
Setup(mask, base_) == [ResourceIdMask |-> mask, ResourceIdBase |-> base_]
Masks == {3, 6, 12, 14}
Bases == {0, 16, 48}

Init ==
    /\ InitConn
    /\ base = 0
    /\ seqid = 1
    /\ conf = Conf(cookieBuffer, eventBuffer, NThreads, MaxReqs, AllKinds,
                   MaxFrames, 0)
    /\ setup = Setup(6, 16)

\* a connection on which SeqLast - 2 requests were made and answered, and
\* nothing is pending: the next sequence ids are SeqLast - 1, SeqLast, 0, 1
WrapBase == SeqLast - 2

InitWrap ==
    /\ InitConn
    /\ base \in {0, WrapBase}
    /\ seqid = base + 1
    /\ conf = Conf(cookieBuffer, eventBuffer, NThreads, MaxReqs, AllKinds,
                   MaxFrames, 0)
    /\ setup = Setup(6, 16)

\* a connection on which the round trip is followed by further requests
InitDrain ==
    /\ InitConn
    /\ base = 0
    /\ seqid = 1
    /\ conf = Conf(cookieBuffer, eventBuffer, DrainThreads, DrainReqs,
                   DrainKinds, DrainFrames, 0)
    /\ setup = Setup(6, 16)

\* a connection whose event channel holds more than one item
InitEv ==
    /\ InitConn
    /\ base = 0
    /\ seqid = 1
    /\ conf = Conf(EvCookieBuffer, EvEventBuffer, EvThreads, EvReqs,
                   AllKinds, EvFrames, EvPolls)
    /\ setup = Setup(6, 16)

\* a connection that is closed at some time
InitClose ==
    /\ InitConn
    /\ base = 0
    /\ seqid = 1
    /\ conf = Conf(ClCookieBuffer, eventBuffer, ClThreads, ClReqs, AllKinds,
                   ClFrames, 0)
    /\ setup = Setup(6, 16)

\* a connection on which SeqLast - 1 requests were made and answered, and
\* nothing is pending: the next sequence ids are SeqLast, 0, 1
QueueBase == SeqLast - 1

\* a connection whose cookies are looked at one by one, started either at
\* construction or shortly before the sequence ids wrap
InitQueue ==
    /\ InitConn
    /\ base \in {0, QueueBase}
    /\ seqid = base + 1
    /\ conf = Conf(QCookieBuffer, eventBuffer, QThreads, QReqs, AllKinds,
                   QFrames, 0)
    /\ setup = Setup(6, 16)

\* a connection whose server sends replies of any length
InitLen ==
    /\ InitConn
    /\ base = 0
    /\ seqid = 1
    /\ conf = Conf(cookieBuffer, eventBuffer, LenThreads, LenReqs, AllKinds,
                   LenFrames, 0)
    /\ setup = Setup(6, 16)

\* a connection on which the error frames read are noted
InitErr ==
    /\ InitConn
    /\ base = 0
    /\ seqid = 1
    /\ conf = [Conf(ErrCookieBuffer, eventBuffer, ErrThreads, ErrReqs, AllKinds,
                    ErrFrames, 0) EXCEPT !.notes = TRUE]
    /\ setup = Setup(6, 16)

\* a connection with one application goroutine that goes on submitting
\* during a round trip
InitBlock ==
    /\ InitConn
    /\ base = 0
    /\ seqid = 1
    /\ conf = Conf(BlkCookieBuffer, eventBuffer, BlkThreads, BlkReqs,
                   UncheckedKinds, BlkFrames, 0)
    /\ setup = Setup(6, 16)

\* a connection whose server answers every request that has a reply; the
\* error frames read are noted
InitLive ==
    /\ InitConn
    /\ base = 0
    /\ seqid = 1
    /\ conf = [Conf(LiveCookieBuffer, eventBuffer, LiveThreads, LiveReqs,
                    AllKinds, LiveFrames, 0) EXCEPT !.notes = TRUE]
    /\ setup = Setup(6, 16)

\* a connection of which only generateXIds and NewId are looked at, with any
\* of the setups
InitXid ==
    /\ InitConn
    /\ base = 0
    /\ seqid = 1
    /\ conf = Conf(cookieBuffer, eventBuffer, NThreads, MaxReqs, AllKinds,
                   MaxFrames, 0)
    /\ setup \in {Setup(m, b) : m \in Masks, b \in Bases}

\* ------------------------------------------------------- generateSeqIds
\* lines 231-241: c.seqChan <- seqid, then the next seqid
generateSeqIds ==
    /\ ~exited
    /\ Len(seqChan) < seqBuffer
    /\ seqChan' = Append(seqChan, seqid)
    /\ seqid' = NextSeq(seqid)
    /\ UNCHANGED <<reqChan, cookieChan, eventChan, cookies, tPc, tCk, sPc, sReq,
                   sDrain, rPc, rCk, buf, rErr, rSeq, replyBytes, rEvent, goSend,
                   wire, written, seqLog, enqLog, outLog, nFrames, fate,
                   returned, yielded, base, conf, wasFull, closed, failed,
                   exited, setup, xidChan, last, xPc, xids, errLog, dnc, dCall,
                   dLog>>

\* ------------------------------------------------------ the application
\* cookie := c.newCookie(checked, reply), the first statement of every
\* request function. (Idle goroutines are interchangeable: the one with the
\* lowest number makes the next request.)
AppNewCookie(t, checked, reply) ==
    /\ ~exited
    /\ tPc[t] = "idle"
    /\ t <= conf.threads
    /\ <<checked, reply>> \in conf.kinds
    /\ \A u \in Threads : u < t => tPc[u] # "idle"
    /\ Cardinality(AppCookies) < conf.reqs
    /\ cookies' = Append(cookies, newCookie(checked, reply, FALSE))
    /\ returned' = Append(returned, NoRet)
    /\ fate' = Append(fate, "new")
    /\ tPc' = [tPc EXCEPT ![t] = "made"]
    /\ tCk' = [tCk EXCEPT ![t] = Len(cookies) + 1]
    /\ UNCHANGED <<seqid, seqChan, reqChan, cookieChan, eventChan, sPc, sReq,
                   sDrain, rPc, rCk, buf, rErr, rSeq, replyBytes, rEvent, goSend,
                   wire, written, seqLog, enqLog, outLog, nFrames, yielded, base,
                   conf, wasFull, closed, failed, exited, setup, xidChan, last,
                   xPc, xids, errLog, dnc, dCall, dLog>>

\* c.newRequest(buf, cookie), line 256: c.reqChan <- &request{buf, cookie}
newRequest(t) ==
    /\ ~exited
    /\ tPc[t] = "made"
    /\ Len(reqChan) < reqBuffer
    /\ reqChan' = Append(reqChan, tCk[t])
    /\ tPc' = [tPc EXCEPT ![t] = "idle"]
    /\ tCk' = [tCk EXCEPT ![t] = 0]
    /\ UNCHANGED <<seqid, seqChan, cookieChan, eventChan, cookies, sPc, sReq,
                   sDrain, rPc, rCk, buf, rErr, rSeq, replyBytes, rEvent, goSend,
                   wire, written, seqLog, enqLog, outLog, nFrames, fate,
                   returned, yielded, base, conf, wasFull, closed, failed,
                   exited, setup, xidChan, last, xPc, xids, errLog, dnc, dCall,
                   dLog>>

\* --------------------------------------------------------- sendRequests
\* (mutant) the round trip is never forced
sendRequests_recv_nodrain ==
    /\ ~exited
    /\ sPc = "recv"
    /\ reqChan # <<>>
    /\ sReq' = Head(reqChan)
    /\ reqChan' = Tail(reqChan)
    /\ sPc' = "seq"
    /\ UNCHANGED <<seqid, seqChan, cookieChan, eventChan, cookies, tPc, tCk,
                   sDrain, rPc, rCk, buf, rErr, rSeq, replyBytes, rEvent, goSend,
                   wire, written, seqLog, enqLog, outLog, nFrames, fate,
                   returned, yielded, base, conf, wasFull, closed, failed,
                   exited, setup, xidChan, last, xPc, xids, errLog, dnc, dCall,
                   dLog>>

\* (mutant) the round trip is forced one cookie early
sendRequests_recv_early ==
    /\ ~exited
    /\ sPc = "recv"
    /\ reqChan # <<>>
    /\ sReq' = Head(reqChan)
    /\ reqChan' = Tail(reqChan)
    /\ sPc' = IF Len(cookieChan) = conf.cookieBuffer - 2 THEN "drainNew" ELSE "seq"
    /\ UNCHANGED <<seqid, seqChan, cookieChan, eventChan, cookies, tPc, tCk,
                   sDrain, rPc, rCk, buf, rErr, rSeq, replyBytes, rEvent, goSend,
                   wire, written, seqLog, enqLog, outLog, nFrames, fate,
                   returned, yielded, base, conf, wasFull, closed, failed,
                   exited, setup, xidChan, last, xPc, xids, errLog, dnc, dCall,
                   dLog>>

\* (mutant) the round trip is forced when cookieChan is full
sendRequests_recv_late ==
    /\ ~exited
    /\ sPc = "recv"
    /\ reqChan # <<>>
    /\ sReq' = Head(reqChan)
    /\ reqChan' = Tail(reqChan)
    /\ sPc' = IF Len(cookieChan) = conf.cookieBuffer THEN "drainNew" ELSE "seq"
    /\ UNCHANGED <<seqid, seqChan, cookieChan, eventChan, cookies, tPc, tCk,
                   sDrain, rPc, rCk, buf, rErr, rSeq, replyBytes, rEvent, goSend,
                   wire, written, seqLog, enqLog, outLog, nFrames, fate,
                   returned, yielded, base, conf, wasFull, closed, failed,
                   exited, setup, xidChan, last, xPc, xids, errLog, dnc, dCall,
                   dLog>>

\* lines 262-267: for req := range c.reqChan, and the test
\* len(c.cookieChan) == cookieBuffer-1 that follows it at once
sendRequests_recv ==
    /\ ~exited
    /\ sPc = "recv"
    /\ reqChan # <<>>
    /\ sReq' = Head(reqChan)
    /\ reqChan' = Tail(reqChan)
    /\ sPc' = IF Len(cookieChan) = conf.cookieBuffer - 1 THEN "drainNew" ELSE "seq"
    /\ UNCHANGED <<seqid, seqChan, cookieChan, eventChan, cookies, tPc, tCk,
                   sDrain, rPc, rCk, buf, rErr, rSeq, replyBytes, rEvent, goSend,
                   wire, written, seqLog, enqLog, outLog, nFrames, fate,
                   returned, yielded, base, conf, wasFull, closed, failed,
                   exited, setup, xidChan, last, xPc, xids, errLog, dnc, dCall,
                   dLog>>

\* line 268: cookie := c.newCookie(true, true)
sendRequests_drainNew ==
    /\ ~exited
    /\ sPc = "drainNew"
    /\ cookies' = Append(cookies, newCookie(TRUE, TRUE, TRUE))
    /\ returned' = Append(returned, NoRet)
    /\ fate' = Append(fate, "new")
    /\ sDrain' = Len(cookies) + 1
    /\ sPc' = "drainSeq"
    /\ UNCHANGED <<seqid, seqChan, reqChan, cookieChan, eventChan, tPc, tCk,
                   sReq, rPc, rCk, buf, rErr, rSeq, replyBytes, rEvent, goSend,
                   wire, written, seqLog, enqLog, outLog, nFrames, yielded, base,
                   conf, wasFull, closed, failed, exited, setup, xidChan, last,
                   xPc, xids, errLog, dnc, dCall, dLog>>

\* line 269: cookie.Sequence = c.newSequenceId()
sendRequests_drainSeq ==
    /\ ~exited
    /\ sPc = "drainSeq"
    /\ seqChan # <<>>
    /\ cookies' = [cookies EXCEPT ![sDrain].Sequence = Head(seqChan)]
    /\ seqChan' = Tail(seqChan)
    /\ seqLog' = Append(seqLog, sDrain)
    /\ sPc' = "drainEnq"
    /\ UNCHANGED <<seqid, reqChan, cookieChan, eventChan, tPc, tCk, sReq, sDrain,
                   rPc, rCk, buf, rErr, rSeq, replyBytes, rEvent, goSend, wire,
                   written, enqLog, outLog, nFrames, fate, returned, yielded,
                   base, conf, wasFull, closed, failed, exited, setup, xidChan,
                   last, xPc, xids, errLog, dnc, dCall, dLog>>

\* line 270: c.cookieChan <- cookie
sendRequests_drainEnq ==
    /\ ~exited
    /\ sPc = "drainEnq"
    /\ Len(cookieChan) < conf.cookieBuffer
    /\ cookieChan' = Append(cookieChan, sDrain)
    /\ enqLog' = Append(enqLog, sDrain)
    /\ sPc' = "drainWrite"
    /\ UNCHANGED <<seqid, seqChan, reqChan, eventChan, cookies, tPc, tCk, sReq,
                   sDrain, rPc, rCk, buf, rErr, rSeq, replyBytes, rEvent, goSend,
                   wire, written, seqLog, outLog, nFrames, fate, returned,
                   yielded, base, conf, wasFull, closed, failed, exited, setup,
                   xidChan, last, xPc, xids, errLog, dnc, dCall, dLog>>

\* line 271: c.writeBuffer(c.getInputFocusRequest())
sendRequests_drainWrite ==
    /\ ~exited
    /\ sPc = "drainWrite"
    /\ ~closed
    /\ wire' = wire \o getInputFocusRequest
    /\ written' = Append(written, sDrain)
    /\ sPc' = "drainWait"
    /\ UNCHANGED <<seqid, seqChan, reqChan, cookieChan, eventChan, cookies, tPc,
                   tCk, sReq, sDrain, rPc, rCk, buf, rErr, rSeq, replyBytes,
                   rEvent, goSend, seqLog, enqLog, outLog, nFrames, fate,
                   returned, yielded, base, conf, wasFull, closed, failed,
                   exited, setup, xidChan, last, xPc, xids, errLog, dnc, dCall,
                   dLog>>

\* line 275: req.cookie.Sequence = c.newSequenceId()
sendRequests_seq ==
    /\ ~exited
    /\ sPc = "seq"
    /\ seqChan # <<>>
    /\ cookies' = [cookies EXCEPT ![sReq].Sequence = Head(seqChan)]
    /\ seqChan' = Tail(seqChan)
    /\ seqLog' = Append(seqLog, sReq)
    /\ sPc' = "enq"
    /\ UNCHANGED <<seqid, reqChan, cookieChan, eventChan, tPc, tCk, sReq, sDrain,
                   rPc, rCk, buf, rErr, rSeq, replyBytes, rEvent, goSend, wire,
                   written, enqLog, outLog, nFrames, fate, returned, yielded,
                   base, conf, wasFull, closed, failed, exited, setup, xidChan,
                   last, xPc, xids, errLog, dnc, dCall, dLog>>

\* (mutant) the cookie is not put into cookieChan before the write
sendRequests_enq_skip ==
    /\ ~exited
    /\ sPc = "enq"
    /\ sPc' = "write"
    /\ UNCHANGED <<seqid, seqChan, reqChan, cookieChan, eventChan, cookies, tPc,
                   tCk, sReq, sDrain, rPc, rCk, buf, rErr, rSeq, replyBytes,
                   rEvent, goSend, wire, written, seqLog, enqLog, outLog,
                   nFrames, fate, returned, yielded, base, conf, wasFull, closed,
                   failed, exited, setup, xidChan, last, xPc, xids, errLog, dnc,
                   dCall, dLog>>

\* line 276: c.cookieChan <- req.cookie
sendRequests_enq ==
    /\ ~exited
    /\ sPc = "enq"
    /\ Len(cookieChan) < conf.cookieBuffer
    /\ cookieChan' = Append(cookieChan, sReq)
    /\ enqLog' = Append(enqLog, sReq)
    /\ sPc' = "write"
    /\ UNCHANGED <<seqid, seqChan, reqChan, eventChan, cookies, tPc, tCk, sReq,
                   sDrain, rPc, rCk, buf, rErr, rSeq, replyBytes, rEvent, goSend,
                   wire, written, seqLog, outLog, nFrames, fate, returned,
                   yielded, base, conf, wasFull, closed, failed, exited, setup,
                   xidChan, last, xPc, xids, errLog, dnc, dCall, dLog>>

\* (mutant) the buffer goes in front of what was written before
sendRequests_write_front ==
    /\ ~exited
    /\ sPc = "write"
    /\ ~closed
    /\ wire' = ReqBuf(sReq) \o wire
    /\ written' = Append(written, sReq)
    /\ sPc' = "recv" /\ sReq' = 0 /\ sDrain' = 0
    /\ UNCHANGED <<seqid, seqChan, reqChan, cookieChan, eventChan, cookies, tPc,
                   tCk, rPc, rCk, buf, rErr, rSeq, replyBytes, rEvent, goSend,
                   seqLog, enqLog, outLog, nFrames, fate, returned, yielded,
                   base, conf, wasFull, closed, failed, exited, setup, xidChan,
                   last, xPc, xids, errLog, dnc, dCall, dLog>>

\* line 277: c.writeBuffer(req.buf); the round-trip cookie, if any, is dropped
sendRequests_write ==
    /\ ~exited
    /\ sPc = "write"
    /\ ~closed
    /\ wire' = wire \o ReqBuf(sReq)
    /\ written' = Append(written, sReq)
    /\ sPc' = "recv" /\ sReq' = 0 /\ sDrain' = 0
    /\ UNCHANGED <<seqid, seqChan, reqChan, cookieChan, eventChan, cookies, tPc,
                   tCk, rPc, rCk, buf, rErr, rSeq, replyBytes, rEvent, goSend,
                   seqLog, enqLog, outLog, nFrames, fate, returned, yielded,
                   base, conf, wasFull, closed, failed, exited, setup, xidChan,
                   last, xPc, xids, errLog, dnc, dCall, dLog>>

\* ------------------------------------------------- cookie.reply, Check
\* the bytes a reply slice shows when it is read: a slice that is buf itself
\* shows what buf holds now
Deref(b) == Bytes(FALSE, IF b.alias THEN buf ELSE b.hdr, b.ext)

\* cookie.reply(), part_014 lines 91-131: replyChecked when errorChan != nil,
\* else replyUnchecked; each fails at once without a reply channel, and
\* otherwise waits in a select for the first of its two channels
reply(c) ==
    LET ck == cookies[c] IN
    \/ /\ ~ck.hasReply
       /\ returned' = [returned EXCEPT ![c] = Ret("usage", NoBytes, Nil)]
       /\ UNCHANGED cookies
    \/ /\ ck.hasReply /\ ck.replyChan # <<>>
       /\ returned' = [returned EXCEPT
                         ![c] = Ret("reply", Deref(Head(ck.replyChan)), Nil)]
       /\ cookies' = [cookies EXCEPT ![c].replyChan = Tail(@)]
    \/ /\ ck.hasReply /\ ck.hasError /\ ck.errorChan # <<>>
       /\ returned' = [returned EXCEPT
                         ![c] = Ret("error", NoBytes, Head(ck.errorChan))]
       /\ cookies' = [cookies EXCEPT ![c].errorChan = Tail(@)]
    \/ /\ ck.hasReply /\ ~ck.hasError /\ ck.pingChan # <<>>
       /\ returned' = [returned EXCEPT ![c] = Ret("nil", NoBytes, Nil)]
       /\ cookies' = [cookies EXCEPT ![c].pingChan = Tail(@)]

\* (mutant) Check() without the test for a reply channel: it waits for the
\* error or the ping of every cookie that has an error channel
Check_noTest(c) ==
    LET ck == cookies[c] IN
    \/ /\ ~ck.hasError
       /\ returned' = [returned EXCEPT ![c] = Ret("usage", NoBytes, Nil)]
       /\ UNCHANGED cookies
    \/ /\ ck.hasError /\ ck.errorChan # <<>>
       /\ returned' = [returned EXCEPT
                         ![c] = Ret("error", NoBytes, Head(ck.errorChan))]
       /\ cookies' = [cookies EXCEPT ![c].errorChan = Tail(@)]
    \/ /\ ck.hasError /\ ck.hasPing /\ ck.pingChan # <<>>
       /\ returned' = [returned EXCEPT ![c] = Ret("nil", NoBytes, Nil)]
       /\ cookies' = [cookies EXCEPT ![c].pingChan = Tail(@)]

\* cookie.Check(), part_014 lines 133-150
Check(c) ==
    LET ck == cookies[c] IN
    \/ /\ ck.hasReply \/ ~ck.hasError
       /\ returned' = [returned EXCEPT ![c] = Ret("usage", NoBytes, Nil)]
       /\ UNCHANGED cookies
    \/ /\ ~ck.hasReply /\ ck.hasError /\ ck.errorChan # <<>>
       /\ returned' = [returned EXCEPT
                         ![c] = Ret("error", NoBytes, Head(ck.errorChan))]
       /\ cookies' = [cookies EXCEPT ![c].errorChan = Tail(@)]
    \/ /\ ~ck.hasReply /\ ck.hasError /\ ck.pingChan # <<>>
       /\ returned' = [returned EXCEPT ![c] = Ret("nil", NoBytes, Nil)]
       /\ cookies' = [cookies EXCEPT ![c].pingChan = Tail(@)]

\* the application calls Reply() on a cookie made for a request with a reply
\* (once per cookie, at any time); the call returns when the select of
\* reply() finds something
AppReply(c) ==
    /\ ~exited
    /\ returned[c].kind = "none"
    /\ cookies[c].hasReply
    /\ reply(c)
    /\ UNCHANGED <<seqid, seqChan, reqChan, cookieChan, eventChan, tPc, tCk, sPc,
                   sReq, sDrain, rPc, rCk, buf, rErr, rSeq, replyBytes, rEvent,
                   goSend, wire, written, seqLog, enqLog, outLog, nFrames, fate,
                   yielded, base, conf, wasFull, closed, failed, exited, setup,
                   xidChan, last, xPc, xids, errLog, dnc, dCall, dLog>>

\* the application calls Check() on a cookie made for a checked request
\* without a reply (once per cookie, at any time)
AppCheck(c) ==
    /\ ~exited
    /\ returned[c].kind = "none"
    /\ CheckedVoid(cookies[c])
    /\ Check(c)
    /\ UNCHANGED <<seqid, seqChan, reqChan, cookieChan, eventChan, tPc, tCk, sPc,
                   sReq, sDrain, rPc, rCk, buf, rErr, rSeq, replyBytes, rEvent,
                   goSend, wire, written, seqLog, enqLog, outLog, nFrames, fate,
                   yielded, base, conf, wasFull, closed, failed, exited, setup,
                   xidChan, last, xPc, xids, errLog, dnc, dCall, dLog>>

\* the application calls Reply() on a cookie made for a request without a
\* reply
AppReplyVoid(c) ==
    /\ ~exited
    /\ returned[c].kind = "none"
    /\ ~cookies[c].hasReply
    /\ reply(c)
    /\ UNCHANGED <<seqid, seqChan, reqChan, cookieChan, eventChan, tPc, tCk, sPc,
                   sReq, sDrain, rPc, rCk, buf, rErr, rSeq, replyBytes, rEvent,
                   goSend, wire, written, seqLog, enqLog, outLog, nFrames, fate,
                   yielded, base, conf, wasFull, closed, failed, exited, setup,
                   xidChan, last, xPc, xids, errLog, dnc, dCall, dLog>>

\* the application calls Check() on a cookie that is not made for a checked
\* request without a reply
AppCheckOther(c) ==
    /\ ~exited
    /\ returned[c].kind = "none"
    /\ ~CheckedVoid(cookies[c])
    /\ Check(c)
    /\ UNCHANGED <<seqid, seqChan, reqChan, cookieChan, eventChan, tPc, tCk, sPc,
                   sReq, sDrain, rPc, rCk, buf, rErr, rSeq, replyBytes, rEvent,
                   goSend, wire, written, seqLog, enqLog, outLog, nFrames, fate,
                   yielded, base, conf, wasFull, closed, failed, exited, setup,
                   xidChan, last, xPc, xids, errLog, dnc, dCall, dLog>>

\* line 272: GetInputFocusCookie{cookie}.Reply() waits for the round trip
sendRequests_drainWait ==
    /\ ~exited
    /\ sPc = "drainWait"
    /\ reply(sDrain)
    /\ sPc' = "seq"
    /\ UNCHANGED <<seqid, seqChan, reqChan, cookieChan, eventChan, tPc, tCk,
                   sReq, sDrain, rPc, rCk, buf, rErr, rSeq, replyBytes, rEvent,
                   goSend, wire, written, seqLog, enqLog, outLog, nFrames, fate,
                   yielded, base, conf, wasFull, closed, failed, exited, setup,
                   xidChan, last, xPc, xids, errLog, dnc, dCall, dLog>>

\* processEventOrError, lines 439-450: (ee, nil) for an Event, (nil, ee) for
\* an Error, (nil, nil) for anything else
processEventOrError(everr) ==
    IF everr.t = "event" THEN [ev |-> everr, err |-> Nil]
    ELSE IF everr.t = "error" THEN [ev |-> Nil, err |-> everr]
    ELSE [ev |-> Nil, err |-> Nil]

\* one return of WaitForEvent / PollForEvent: the call, whether it took an
\* item from eventChan, and the pair it returned
Yield(op, got, pair) == [op |-> op, got |-> got, ev |-> pair.ev, err |-> pair.err]

\* WaitForEvent, lines 454-456: processEventOrError(<-c.eventChan)
WaitForEvent ==
    /\ ~exited
    /\ eventChan # <<>>
    /\ yielded' = Append(yielded,
          Yield("wait", TRUE, processEventOrError(Head(eventChan))))
    /\ eventChan' = Tail(eventChan)
    /\ UNCHANGED <<seqid, seqChan, reqChan, cookieChan, cookies, tPc, tCk, sPc,
                   sReq, sDrain, rPc, rCk, buf, rErr, rSeq, replyBytes, rEvent,
                   goSend, wire, written, seqLog, enqLog, outLog, nFrames, fate,
                   returned, base, conf, wasFull, closed, failed, exited, setup,
                   xidChan, last, xPc, xids, errLog, dnc, dCall, dLog>>

\* the calls of PollForEvent that found eventChan empty
EmptyPolls == {i \in 1..Len(yielded) : ~yielded[i].got}

\* (mutant) PollForEvent waits for an item as WaitForEvent does
PollForEvent_waits ==
    /\ ~exited
    /\ eventChan # <<>>
    /\ yielded' = Append(yielded,
          Yield("poll", TRUE, processEventOrError(Head(eventChan))))
    /\ eventChan' = Tail(eventChan)
    /\ UNCHANGED <<seqid, seqChan, reqChan, cookieChan, cookies, tPc, tCk, sPc,
                   sReq, sDrain, rPc, rCk, buf, rErr, rSeq, replyBytes, rEvent,
                   goSend, wire, written, seqLog, enqLog, outLog, nFrames, fate,
                   returned, base, conf, wasFull, closed, failed, exited, setup,
                   xidChan, last, xPc, xids, errLog, dnc, dCall, dLog>>

\* PollForEvent, lines 461-469: the select takes an item if there is one and
\* else returns (nil, nil) at once
PollForEvent ==
    /\ ~exited
    /\ IF eventChan # <<>>
         THEN /\ yielded' = Append(yielded,
                    Yield("poll", TRUE, processEventOrError(Head(eventChan))))
              /\ eventChan' = Tail(eventChan)
         ELSE /\ Cardinality(EmptyPolls) < conf.polls
              /\ yielded' = Append(yielded,
                    Yield("poll", FALSE, [ev |-> Nil, err |-> Nil]))
              /\ UNCHANGED eventChan
    /\ UNCHANGED <<seqid, seqChan, reqChan, cookieChan, cookies, tPc, tCk, sPc,
                   sReq, sDrain, rPc, rCk, buf, rErr, rSeq, replyBytes, rEvent,
                   goSend, wire, written, seqLog, enqLog, outLog, nFrames, fate,
                   returned, base, conf, wasFull, closed, failed, exited, setup,
                   xidChan, last, xPc, xids, errLog, dnc, dCall, dLog>>

\* ------------------------------------------------- generateXIds, NewId
\* uint32 words, cut to XidBits bits
XidWord == 2 ^ XidBits

\* a & b and a | b, bit by bit
RECURSIVE BitAnd(_, _)
BitAnd(x, y) ==
    IF x = 0 \/ y = 0 THEN 0
    ELSE (x % 2) * (y % 2) + 2 * BitAnd(x \div 2, y \div 2)

RECURSIVE BitOr(_, _)
BitOr(x, y) ==
    IF x = 0 THEN y
    ELSE IF y = 0 THEN x
    ELSE (IF x % 2 = 1 \/ y % 2 = 1 THEN 1 ELSE 0)
            + 2 * BitOr(x \div 2, y \div 2)

\* -x in unsigned arithmetic
Neg(x) == (XidWord - x) % XidWord

\* line 198: inc := conn.Setup.ResourceIdMask & -conn.Setup.ResourceIdMask
inc == BitAnd(setup.ResourceIdMask, Neg(setup.ResourceIdMask))

\* line 199: max := conn.Setup.ResourceIdMask
max == setup.ResourceIdMask

\* an xid sent over xidChan: err is TRUE for the non-nil error
Xid(id, err) == [id |-> id, err |-> err]

\* line 203: last > 0 && last >= max-inc+1
NoMoreIds == last > 0 /\ last >= (max - inc + 1) % XidWord

\* lines 203-209: there are no more ids: the xid with id 0 and the error is
\* sent, and the loop body goes on
generateXIds_noMore ==
    /\ ~exited
    /\ xPc = "test"
    /\ NoMoreIds
    /\ Len(xidChan) < xidBuffer
    /\ xidChan' = Append(xidChan, Xid(0, TRUE))
    /\ xPc' = "emit"
    /\ UNCHANGED <<seqid, seqChan, reqChan, cookieChan, eventChan, cookies, tPc,
                   tCk, sPc, sReq, sDrain, rPc, rCk, buf, rErr, rSeq, replyBytes,
                   rEvent, goSend, wire, written, seqLog, enqLog, outLog,
                   nFrames, fate, returned, yielded, base, conf, wasFull, closed,
                   failed, exited, setup, last, xids, errLog, dnc, dCall, dLog>>

\* (mutant) the xid is sent before last is incremented
generateXIds_next_late ==
    /\ ~exited
    /\ xPc = "emit" \/ (xPc = "test" /\ ~NoMoreIds)
    /\ Len(xidChan) < xidBuffer
    /\ last' = (last + inc) % XidWord
    /\ xidChan' = Append(xidChan, Xid(BitOr(last, setup.ResourceIdBase), FALSE))
    /\ xPc' = "test"
    /\ UNCHANGED <<seqid, seqChan, reqChan, cookieChan, eventChan, cookies, tPc,
                   tCk, sPc, sReq, sDrain, rPc, rCk, buf, rErr, rSeq, replyBytes,
                   rEvent, goSend, wire, written, seqLog, enqLog, outLog,
                   nFrames, fate, returned, yielded, base, conf, wasFull, closed,
                   failed, exited, setup, xids, errLog, dnc, dCall, dLog>>

\* lines 211-215, reached with the test of line 203 false or after the send
\* of line 204: last += inc, and the xid last | base is sent with a nil error
generateXIds_next ==
    /\ ~exited
    /\ xPc = "emit" \/ (xPc = "test" /\ ~NoMoreIds)
    /\ Len(xidChan) < xidBuffer
    /\ last' = (last + inc) % XidWord
    /\ xidChan' = Append(xidChan,
                     Xid(BitOr((last + inc) % XidWord, setup.ResourceIdBase), FALSE))
    /\ xPc' = "test"
    /\ UNCHANGED <<seqid, seqChan, reqChan, cookieChan, eventChan, cookies, tPc,
                   tCk, sPc, sReq, sDrain, rPc, rCk, buf, rErr, rSeq, replyBytes,
                   rEvent, goSend, wire, written, seqLog, enqLog, outLog,
                   nFrames, fate, returned, yielded, base, conf, wasFull, closed,
                   failed, exited, setup, xids, errLog, dnc, dCall, dLog>>

\* NewId, lines 161-167: xid := <-c.xidChan; (0, xid.err) if xid.err is not
\* nil, else (xid.id, nil)
NewId ==
    /\ ~exited
    /\ Len(xids) < MaxIds
    /\ xidChan # <<>>
    /\ xids' = Append(xids, IF Head(xidChan).err THEN Xid(0, TRUE)
                                                ELSE Xid(Head(xidChan).id, FALSE))
    /\ xidChan' = Tail(xidChan)
    /\ UNCHANGED <<seqid, seqChan, reqChan, cookieChan, eventChan, cookies, tPc,
                   tCk, sPc, sReq, sDrain, rPc, rCk, buf, rErr, rSeq, replyBytes,
                   rEvent, goSend, wire, written, seqLog, enqLog, outLog,
                   nFrames, fate, returned, yielded, base, conf, wasFull, closed,
                   failed, exited, setup, last, xPc, errLog, dnc, dCall, dLog>>

\* ---------------------------------------------------- Close and failures
\* Close, lines 103-105: c.conn.Close(); the same when the connection is
\* closed under the Conn (c.conn.Close() called by the owner of the net.Conn)
Close ==
    /\ ~exited
    /\ ~closed
    /\ closed' = TRUE
    /\ UNCHANGED <<seqid, seqChan, reqChan, cookieChan, eventChan, cookies, tPc,
                   tCk, sPc, sReq, sDrain, rPc, rCk, buf, rErr, rSeq, replyBytes,
                   rEvent, goSend, wire, written, seqLog, enqLog, outLog,
                   nFrames, fate, returned, yielded, base, conf, wasFull, failed,
                   exited, setup, xidChan, last, xPc, xids, errLog, dnc, dCall,
                   dLog>>

\* writeBuffer, lines 282-287, called at lines 271 and 277: the Write on the
\* closed connection fails and logger.Fatal ends the process
sendRequests_writeFail ==
    /\ ~exited
    /\ sPc \in {"write", "drainWrite"}
    /\ closed
    /\ failed' = TRUE
    /\ exited' = TRUE
    /\ UNCHANGED <<seqid, seqChan, reqChan, cookieChan, eventChan, cookies, tPc,
                   tCk, sPc, sReq, sDrain, rPc, rCk, buf, rErr, rSeq, replyBytes,
                   rEvent, goSend, wire, written, seqLog, enqLog, outLog,
                   nFrames, fate, returned, yielded, base, conf, wasFull, closed,
                   setup, xidChan, last, xPc, xids, errLog, dnc, dCall, dLog>>

\* (mutant) the failed read is logged and the loop goes on
readResponses_readFail_goesOn ==
    /\ ~exited
    /\ rPc = "read"
    /\ closed
    /\ failed' = TRUE
    /\ UNCHANGED <<seqid, seqChan, reqChan, cookieChan, eventChan, cookies, tPc,
                   tCk, sPc, sReq, sDrain, rPc, rCk, buf, rErr, rSeq, replyBytes,
                   rEvent, goSend, wire, written, seqLog, enqLog, outLog,
                   nFrames, fate, returned, yielded, base, conf, wasFull, closed,
                   exited, setup, xidChan, last, xPc, xids, errLog, dnc, dCall,
                   dLog>>

\* lines 310-313 and 339-342: io.ReadFull on the closed connection fails and
\* logger.Fatal ends the process
readResponses_readFail ==
    /\ ~exited
    /\ rPc = "read"
    /\ closed
    /\ failed' = TRUE
    /\ exited' = TRUE
    /\ UNCHANGED <<seqid, seqChan, reqChan, cookieChan, eventChan, cookies, tPc,
                   tCk, sPc, sReq, sDrain, rPc, rCk, buf, rErr, rSeq, replyBytes,
                   rEvent, goSend, wire, written, seqLog, enqLog, outLog,
                   nFrames, fate, returned, yielded, base, conf, wasFull, closed,
                   setup, xidChan, last, xPc, xids, errLog, dnc, dCall, dLog>>

\* -------------------------------------------------------- readResponses
\* newErrorFuncs / newEventFuncs (lines 128, 148): the numbers that have a
\* constructor; the server also sends one error number and one event number
\* that have none
newErrorFuncs == {8}
newEventFuncs == {2}
ErrorNumbers == newErrorFuncs \cup {200}
EventNumbers == newEventFuncs \cup {3}

\* the sequence numbers the server puts into a frame: that of a request it
\* was sent and that the cookie loop has not dealt with, or one that no
\* cookie carries
Unanswered == {written[i] : i \in {j \in 1..Len(written) : fate[written[j]] = "new"}}
SeqChoices == {cookies[c].Sequence : c \in Unanswered} \cup {BogusSeq}

\* the frames the server may send next; tag tells the frames apart
Frames ==
    LET tag == nFrames + 1 IN
    {Hdr(0, n, s, 0, tag) : n \in ErrorNumbers, s \in SeqChoices}
    \cup {Hdr(1, 0, s, l, tag) : s \in SeqChoices, l \in 0..MaxExt}
    \cup {Hdr(n, 0, 0, 0, tag) : n \in EventNumbers}

\* length fields around 2^30, where 32 + size*4 passes 2^32
LongLens == {QuadMod - HeaderQuads, QuadMod - 1, QuadMod, QuadMod + 1}

\* the replies the server may send next when it also sends such ones
LongFrames ==
    LET tag == nFrames + 1 IN
    {Hdr(1, 0, cookies[c].Sequence, l, tag) :
        c \in Unanswered, l \in (0..MaxExt) \cup LongLens}

\* the requests written that have a reply, the round trips among them, in
\* the order of the writes
ReplyWritten == SelectSeq(written, LAMBDA c : cookies[c].hasReply)

\* the frames of a server that answers every request that has a reply, in
\* the order of the requests, with one reply or one error, and sends
\* nothing else: every frame sent so far was such an answer
AnswerFrames ==
    IF nFrames < Len(ReplyWritten)
      THEN LET s == cookies[ReplyWritten[nFrames + 1]].Sequence
               tag == nFrames + 1
           IN {Hdr(0, n, s, 0, tag) : n \in ErrorNumbers}
              \cup {Hdr(1, 0, s, l, tag) : l \in 0..MaxExt}
      ELSE {}

\* line 336: byteCount := 32 + size*4 in uint32, counted in 4-byte units:
\* (32 + 4*size) mod 2^32 = 4 * ((8 + size) mod 2^30)
byteCount(size) == (HeaderQuads + size) % QuadMod

\* lines 334-346: the reply slice for the header now in buf
readReply(hdr) ==
    IF hdr.len > 0
      THEN Bytes(FALSE, hdr, ExtOf(hdr.tag, byteCount(hdr.len) - HeaderQuads))
      ELSE Bytes(TRUE, hdr, <<>>)

\* TRUE when some reply slice that is buf itself has not been read yet
AliasLive == \E i \in 1..Len(cookies) :
                cookies[i].replyChan # <<>> /\ Head(cookies[i].replyChan).alias

\* lines 308-379: one pass of the loop up to the cookie search: read 32 bytes
\* into buf and classify them
readResponses_read(f) ==
    /\ ~exited
    /\ rPc = "read"
    /\ ~closed
    /\ nFrames < conf.frames
    /\ nFrames' = nFrames + 1
    /\ buf' = IF AliasLive \/ (f.b0 = 1 /\ f.len = 0) THEN f ELSE ZeroHdr
    /\ errLog' = IF conf.notes /\ f.b0 = 0
                   THEN errLog \cup {[seq |-> f.seq, num |-> f.b1]}
                   ELSE errLog
    /\ \/ /\ f.b0 = 0 /\ f.b1 \notin newErrorFuncs
          /\ UNCHANGED <<rPc, rErr, rSeq, replyBytes, rEvent, goSend>>
       \/ /\ f.b0 = 0 /\ f.b1 \in newErrorFuncs
          /\ rErr' = Item("error", f.seq, f.tag)
          /\ rSeq' = f.seq
          /\ rPc' = "loop"
          /\ UNCHANGED <<replyBytes, rEvent, goSend>>
       \/ /\ f.b0 = 1
          /\ f.len > 0 => byteCount(f.len) >= HeaderQuads
          /\ rSeq' = f.seq
          /\ replyBytes' = readReply(f)
          /\ rPc' = "loop"
          /\ UNCHANGED <<rErr, rEvent, goSend>>
       \/ /\ f.b0 > 1 /\ (f.b0 % 128) \notin newEventFuncs
          /\ UNCHANGED <<rPc, rErr, rSeq, replyBytes, rEvent, goSend>>
       \/ /\ f.b0 > 1 /\ (f.b0 % 128) \in newEventFuncs
          /\ Len(eventChan) = conf.eventBuffer
          \* go func() { c.eventChan <- event }(): the new goroutine reads the
          \* variable event either before the loop resets it or later
          /\ \E now \in BOOLEAN :
               goSend' = Append(goSend,
                   IF now THEN [st |-> "send", val |-> Item("event", 0, f.tag)]
                          ELSE [st |-> "new", val |-> Nil])
          /\ UNCHANGED <<rPc, rErr, rSeq, replyBytes, rEvent>>
       \/ /\ f.b0 > 1 /\ (f.b0 % 128) \in newEventFuncs
          /\ Len(eventChan) # conf.eventBuffer
          /\ rEvent' = Item("event", 0, f.tag)
          /\ rPc' = "evSend"
          /\ UNCHANGED <<rErr, rSeq, replyBytes, goSend>>
    /\ UNCHANGED <<seqid, seqChan, reqChan, cookieChan, eventChan, cookies, tPc,
                   tCk, sPc, sReq, sDrain, rCk, wire, written, seqLog, enqLog,
                   outLog, fate, returned, yielded, base, conf, wasFull, closed,
                   failed, exited, setup, xidChan, last, xPc, xids, dnc, dCall,
                   dLog>>

\* lines 336-338: byteCount is less than 32, so biggerBuf[:32] is out of
\* range: the run-time panic ends the process
readResponses_readShort(f) ==
    /\ ~exited
    /\ rPc = "read"
    /\ ~closed
    /\ nFrames < conf.frames
    /\ f.b0 = 1 /\ f.len > 0 /\ byteCount(f.len) < HeaderQuads
    /\ nFrames' = nFrames + 1
    /\ exited' = TRUE
    /\ UNCHANGED <<seqid, seqChan, reqChan, cookieChan, eventChan, cookies, tPc,
                   tCk, sPc, sReq, sDrain, rPc, rCk, buf, rErr, rSeq, replyBytes,
                   rEvent, goSend, wire, written, seqLog, enqLog, outLog, fate,
                   returned, yielded, base, conf, wasFull, closed, failed, setup,
                   xidChan, last, xPc, xids, errLog, dnc, dCall, dLog>>

\* (mutant) the event is always left to a detached sender
readResponses_evSend_detached ==
    /\ ~exited
    /\ rPc = "evSend"
    /\ goSend' = Append(goSend, [st |-> "send", val |-> rEvent])
    /\ rEvent' = Nil
    /\ rPc' = "read"
    /\ UNCHANGED <<seqid, seqChan, reqChan, cookieChan, eventChan, cookies, tPc,
                   tCk, sPc, sReq, sDrain, rCk, buf, rErr, rSeq, replyBytes,
                   wire, written, seqLog, enqLog, outLog, nFrames, fate,
                   returned, yielded, base, conf, wasFull, closed, failed,
                   exited, setup, xidChan, last, xPc, xids, errLog, dnc, dCall,
                   dLog>>

\* line 374: c.eventChan <- event
readResponses_evSend ==
    /\ ~exited
    /\ rPc = "evSend"
    /\ Len(eventChan) < conf.eventBuffer
    /\ eventChan' = Append(eventChan, rEvent)
    /\ rEvent' = Nil
    /\ rPc' = "read"
    /\ wasFull' = (wasFull \/ Len(eventChan') = conf.eventBuffer)
    /\ UNCHANGED <<seqid, seqChan, reqChan, cookieChan, cookies, tPc, tCk, sPc,
                   sReq, sDrain, rCk, buf, rErr, rSeq, replyBytes, goSend, wire,
                   written, seqLog, enqLog, outLog, nFrames, fate, returned,
                   yielded, base, conf, closed, failed, exited, setup, xidChan,
                   last, xPc, xids, errLog, dnc, dCall, dLog>>

\* lines 370-372: a detached sender evaluates the shared variable event
goSend_eval(i) ==
    /\ ~exited
    /\ goSend[i].st = "new"
    /\ goSend' = [goSend EXCEPT ![i] = [st |-> "send", val |-> rEvent]]
    /\ UNCHANGED <<seqid, seqChan, reqChan, cookieChan, eventChan, cookies, tPc,
                   tCk, sPc, sReq, sDrain, rPc, rCk, buf, rErr, rSeq, replyBytes,
                   rEvent, wire, written, seqLog, enqLog, outLog, nFrames, fate,
                   returned, yielded, base, conf, wasFull, closed, failed,
                   exited, setup, xidChan, last, xPc, xids, errLog, dnc, dCall,
                   dLog>>

\* lines 370-372: a detached sender completes c.eventChan <- event
goSend_send(i) ==
    /\ ~exited
    /\ goSend[i].st = "send"
    /\ Len(eventChan) < conf.eventBuffer
    /\ eventChan' = Append(eventChan, goSend[i].val)
    /\ goSend' = [j \in 1..(Len(goSend) - 1) |->
                    IF j < i THEN goSend[j] ELSE goSend[j + 1]]
    /\ wasFull' = (wasFull \/ Len(eventChan') = conf.eventBuffer)
    /\ UNCHANGED <<seqid, seqChan, reqChan, cookieChan, cookies, tPc, tCk, sPc,
                   sReq, sDrain, rPc, rCk, buf, rErr, rSeq, replyBytes, rEvent,
                   wire, written, seqLog, enqLog, outLog, nFrames, fate,
                   returned, yielded, base, conf, closed, failed, exited, setup,
                   xidChan, last, xPc, xids, errLog, dnc, dCall, dLog>>

\* (mutant) the newest cookie is taken instead of the oldest
readResponses_next_newest ==
    /\ ~exited
    /\ rPc = "loop"
    /\ cookieChan # <<>>
    /\ rCk' = cookieChan[Len(cookieChan)]
    /\ cookieChan' = SubSeq(cookieChan, 1, Len(cookieChan) - 1)
    /\ outLog' = Append(outLog, cookieChan[Len(cookieChan)])
    /\ rPc' = "handle"
    /\ UNCHANGED <<seqid, seqChan, reqChan, eventChan, cookies, tPc, tCk, sPc,
                   sReq, sDrain, buf, rErr, rSeq, replyBytes, rEvent, goSend,
                   wire, written, seqLog, enqLog, nFrames, fate, returned,
                   yielded, base, conf, wasFull, closed, failed, exited, setup,
                   xidChan, last, xPc, xids, errLog, dnc, dCall, dLog>>

\* (mutant) the oldest cookie is looked at and left in cookieChan
readResponses_next_keep ==
    /\ ~exited
    /\ rPc = "loop"
    /\ cookieChan # <<>>
    /\ rCk' = Head(cookieChan)
    /\ outLog' = Append(outLog, Head(cookieChan))
    /\ rPc' = "handle"
    /\ UNCHANGED <<seqid, seqChan, reqChan, cookieChan, eventChan, cookies, tPc,
                   tCk, sPc, sReq, sDrain, buf, rErr, rSeq, replyBytes, rEvent,
                   goSend, wire, written, seqLog, enqLog, nFrames, fate,
                   returned, yielded, base, conf, wasFull, closed, failed,
                   exited, setup, xidChan, last, xPc, xids, errLog, dnc, dCall,
                   dLog>>

\* line 389: for cookie := range c.cookieChan takes the oldest cookie
readResponses_next ==
    /\ ~exited
    /\ rPc = "loop"
    /\ cookieChan # <<>>
    /\ rCk' = Head(cookieChan)
    /\ cookieChan' = Tail(cookieChan)
    /\ outLog' = Append(outLog, Head(cookieChan))
    /\ rPc' = "handle"
    /\ UNCHANGED <<seqid, seqChan, reqChan, eventChan, cookies, tPc, tCk, sPc,
                   sReq, sDrain, buf, rErr, rSeq, replyBytes, rEvent, goSend,
                   wire, written, seqLog, enqLog, nFrames, fate, returned,
                   yielded, base, conf, wasFull, closed, failed, exited, setup,
                   xidChan, last, xPc, xids, errLog, dnc, dCall, dLog>>

\* (mutant) every error goes to eventChan, also that of a checked cookie
readResponses_error_async ==
    /\ ~exited
    /\ rPc = "handle"
    /\ cookies[rCk].Sequence = rSeq
    /\ rErr # Nil
    /\ fate' = [fate EXCEPT ![rCk] = "matched"]
    /\ Len(eventChan) < conf.eventBuffer
    /\ eventChan' = Append(eventChan, rErr)
    /\ IF cookies[rCk].hasPing
         THEN rPc' = "ping" /\ UNCHANGED <<rErr, rSeq, rCk>>
         ELSE rPc' = "read" /\ rErr' = Nil /\ rSeq' = 0 /\ rCk' = 0
    /\ wasFull' = (wasFull \/ Len(eventChan') = conf.eventBuffer)
    /\ UNCHANGED <<seqid, seqChan, reqChan, cookieChan, cookies, tPc, tCk, sPc,
                   sReq, sDrain, buf, replyBytes, rEvent, goSend, wire, written,
                   seqLog, enqLog, outLog, nFrames, returned, yielded, base,
                   conf, closed, failed, exited, setup, xidChan, last, xPc, xids,
                   errLog, dnc, dCall, dLog>>

\* (mutant) the error of an unchecked cookie is not sent to eventChan
readResponses_error_nopush ==
    /\ ~exited
    /\ rPc = "handle"
    /\ cookies[rCk].Sequence = rSeq
    /\ rErr # Nil
    /\ fate' = [fate EXCEPT ![rCk] = "matched"]
    /\ IF cookies[rCk].hasError
         THEN /\ Len(cookies[rCk].errorChan) < 1
              /\ cookies' = [cookies EXCEPT ![rCk].errorChan = Append(@, rErr)]
              /\ rPc' = "read" /\ rErr' = Nil /\ rSeq' = 0 /\ rCk' = 0
         ELSE /\ IF cookies[rCk].hasPing
                   THEN rPc' = "ping" /\ UNCHANGED <<rErr, rSeq, rCk>>
                   ELSE rPc' = "read" /\ rErr' = Nil /\ rSeq' = 0 /\ rCk' = 0
              /\ UNCHANGED cookies
    /\ UNCHANGED <<seqid, seqChan, reqChan, cookieChan, eventChan, tPc, tCk, sPc,
                   sReq, sDrain, buf, replyBytes, rEvent, goSend, wire, written,
                   seqLog, enqLog, outLog, nFrames, returned, yielded, base,
                   conf, wasFull, closed, failed, exited, setup, xidChan, last,
                   xPc, xids, errLog, dnc, dCall, dLog>>

\* (mutant) an error is given to the first cookie whose sequence id is not
\* smaller than seq
readResponses_error_numeric ==
    /\ ~exited
    /\ rPc = "handle"
    /\ cookies[rCk].Sequence >= rSeq
    /\ rErr # Nil
    /\ fate' = [fate EXCEPT ![rCk] = "matched"]
    /\ IF cookies[rCk].hasError
         THEN /\ Len(cookies[rCk].errorChan) < 1
              /\ cookies' = [cookies EXCEPT ![rCk].errorChan = Append(@, rErr)]
              /\ rPc' = "read" /\ rErr' = Nil /\ rSeq' = 0 /\ rCk' = 0
              /\ UNCHANGED eventChan
         ELSE /\ Len(eventChan) < conf.eventBuffer
              /\ eventChan' = Append(eventChan, rErr)
              /\ IF cookies[rCk].hasPing
                   THEN rPc' = "ping" /\ UNCHANGED <<rErr, rSeq, rCk>>
                   ELSE rPc' = "read" /\ rErr' = Nil /\ rSeq' = 0 /\ rCk' = 0
              /\ UNCHANGED cookies
    /\ wasFull' = (wasFull \/ Len(eventChan') = conf.eventBuffer)
    /\ UNCHANGED <<seqid, seqChan, reqChan, cookieChan, tPc, tCk, sPc, sReq,
                   sDrain, buf, replyBytes, rEvent, goSend, wire, written,
                   seqLog, enqLog, outLog, nFrames, returned, yielded, base,
                   conf, closed, failed, exited, setup, xidChan, last, xPc, xids,
                   errLog, dnc, dCall, dLog>>

\* (mutant) a cookie with a ping channel is pinged after its error also when
\* the error went to its error channel
readResponses_error_andPing ==
    /\ ~exited
    /\ rPc = "handle"
    /\ cookies[rCk].Sequence = rSeq
    /\ rErr # Nil
    /\ fate' = [fate EXCEPT ![rCk] = "matched"]
    /\ IF cookies[rCk].hasError
         THEN /\ Len(cookies[rCk].errorChan) < 1
              /\ cookies' = [cookies EXCEPT ![rCk].errorChan = Append(@, rErr)]
              /\ UNCHANGED eventChan
         ELSE /\ Len(eventChan) < conf.eventBuffer
              /\ eventChan' = Append(eventChan, rErr)
              /\ UNCHANGED cookies
    /\ IF cookies[rCk].hasPing
         THEN rPc' = "ping" /\ UNCHANGED <<rErr, rSeq, rCk>>
         ELSE rPc' = "read" /\ rErr' = Nil /\ rSeq' = 0 /\ rCk' = 0
    /\ wasFull' = (wasFull \/ Len(eventChan') = conf.eventBuffer)
    /\ UNCHANGED <<seqid, seqChan, reqChan, cookieChan, tPc, tCk, sPc, sReq,
                   sDrain, buf, replyBytes, rEvent, goSend, wire, written,
                   seqLog, enqLog, outLog, nFrames, returned, yielded, base,
                   conf, closed, failed, exited, setup, xidChan, last, xPc, xids,
                   errLog, dnc, dCall, dLog>>

\* lines 391-402 and 413: the cookie carries seq and the frame is an error
readResponses_error ==
    /\ ~exited
    /\ rPc = "handle"
    /\ cookies[rCk].Sequence = rSeq
    /\ rErr # Nil
    /\ fate' = [fate EXCEPT ![rCk] = "matched"]
    /\ IF cookies[rCk].hasError
         THEN /\ Len(cookies[rCk].errorChan) < 1
              /\ cookies' = [cookies EXCEPT ![rCk].errorChan = Append(@, rErr)]
              /\ rPc' = "read" /\ rErr' = Nil /\ rSeq' = 0 /\ rCk' = 0
              /\ UNCHANGED eventChan
         ELSE /\ Len(eventChan) < conf.eventBuffer
              /\ eventChan' = Append(eventChan, rErr)
              /\ IF cookies[rCk].hasPing
                   THEN rPc' = "ping" /\ UNCHANGED <<rErr, rSeq, rCk>>
                   ELSE rPc' = "read" /\ rErr' = Nil /\ rSeq' = 0 /\ rCk' = 0
              /\ UNCHANGED cookies
    /\ wasFull' = (wasFull \/ Len(eventChan') = conf.eventBuffer)
    /\ UNCHANGED <<seqid, seqChan, reqChan, cookieChan, tPc, tCk, sPc, sReq,
                   sDrain, buf, replyBytes, rEvent, goSend, wire, written,
                   seqLog, enqLog, outLog, nFrames, returned, yielded, base,
                   conf, closed, failed, exited, setup, xidChan, last, xPc, xids,
                   errLog, dnc, dCall, dLog>>

\* lines 399-401: cookie.pingChan <- true after the error went to eventChan
readResponses_ping ==
    /\ ~exited
    /\ rPc = "ping"
    /\ Len(cookies[rCk].pingChan) < 1
    /\ cookies' = [cookies EXCEPT ![rCk].pingChan = Append(@, TRUE)]
    /\ rPc' = "read" /\ rErr' = Nil /\ rSeq' = 0 /\ rCk' = 0
    /\ UNCHANGED <<seqid, seqChan, reqChan, cookieChan, eventChan, tPc, tCk, sPc,
                   sReq, sDrain, buf, replyBytes, rEvent, goSend, wire, written,
                   seqLog, enqLog, outLog, nFrames, fate, returned, yielded,
                   base, conf, wasFull, closed, failed, exited, setup, xidChan,
                   last, xPc, xids, errLog, dnc, dCall, dLog>>

\* lines 391-392 and 403-413: the cookie carries seq and the frame is a
\* reply; without a reply channel the loop goes on (continue, line 407)
readResponses_reply ==
    /\ ~exited
    /\ rPc = "handle"
    /\ cookies[rCk].Sequence = rSeq
    /\ rErr = Nil
    /\ IF cookies[rCk].hasReply
         THEN /\ Len(cookies[rCk].replyChan) < 1
              /\ cookies' = [cookies EXCEPT
                               ![rCk].replyChan = Append(@, replyBytes)]
              /\ fate' = [fate EXCEPT ![rCk] = "matched"]
              /\ rPc' = "read" /\ rSeq' = 0 /\ rCk' = 0
              /\ replyBytes' = NoBytes
         ELSE /\ fate' = [fate EXCEPT ![rCk] = "noreply"]
              /\ rPc' = "loop" /\ rCk' = 0
              /\ UNCHANGED <<cookies, rSeq, replyBytes>>
    /\ UNCHANGED <<seqid, seqChan, reqChan, cookieChan, eventChan, tPc, tCk, sPc,
                   sReq, sDrain, buf, rErr, rEvent, goSend, wire, written,
                   seqLog, enqLog, outLog, nFrames, returned, yielded, base,
                   conf, wasFull, closed, failed, exited, setup, xidChan, last,
                   xPc, xids, errLog, dnc, dCall, dLog>>

\* (mutant) a cookie that is passed by gets no ping
readResponses_retire_noping ==
    /\ ~exited
    /\ rPc = "handle"
    /\ cookies[rCk].Sequence # rSeq
    /\ fate' = [fate EXCEPT ![rCk] = "retired"]
    /\ rPc' = "loop" /\ rCk' = 0
    /\ UNCHANGED <<seqid, seqChan, reqChan, cookieChan, eventChan, cookies, tPc,
                   tCk, sPc, sReq, sDrain, buf, rErr, rSeq, replyBytes, rEvent,
                   goSend, wire, written, seqLog, enqLog, outLog, nFrames,
                   returned, yielded, base, conf, wasFull, closed, failed,
                   exited, setup, xidChan, last, xPc, xids, errLog, dnc, dCall,
                   dLog>>

\* (mutant) every cookie with a ping channel that is passed by gets a ping
readResponses_retire_pingAny ==
    /\ ~exited
    /\ rPc = "handle"
    /\ cookies[rCk].Sequence # rSeq
    /\ IF cookies[rCk].hasPing
         THEN /\ Len(cookies[rCk].pingChan) < 1
              /\ cookies' = [cookies EXCEPT ![rCk].pingChan = Append(@, TRUE)]
         ELSE UNCHANGED cookies
    /\ fate' = [fate EXCEPT ![rCk] = "retired"]
    /\ rPc' = "loop" /\ rCk' = 0
    /\ UNCHANGED <<seqid, seqChan, reqChan, cookieChan, eventChan, tPc, tCk, sPc,
                   sReq, sDrain, buf, rErr, rSeq, replyBytes, rEvent, goSend,
                   wire, written, seqLog, enqLog, outLog, nFrames, returned,
                   yielded, base, conf, wasFull, closed, failed, exited, setup,
                   xidChan, last, xPc, xids, errLog, dnc, dCall, dLog>>

\* lines 416-431: the cookie does not carry seq; a checked cookie without a
\* reply gets its ping, the others are let pass by
readResponses_retire ==
    /\ ~exited
    /\ rPc = "handle"
    /\ cookies[rCk].Sequence # rSeq
    /\ IF CheckedVoid(cookies[rCk])
         THEN /\ Len(cookies[rCk].pingChan) < 1
              /\ cookies' = [cookies EXCEPT ![rCk].pingChan = Append(@, TRUE)]
         ELSE UNCHANGED cookies
    /\ fate' = [fate EXCEPT ![rCk] = "retired"]
    /\ rPc' = "loop" /\ rCk' = 0
    /\ UNCHANGED <<seqid, seqChan, reqChan, cookieChan, eventChan, tPc, tCk, sPc,
                   sReq, sDrain, buf, rErr, rSeq, replyBytes, rEvent, goSend,
                   wire, written, seqLog, enqLog, outLog, nFrames, returned,
                   yielded, base, conf, wasFull, closed, failed, exited, setup,
                   xidChan, last, xPc, xids, errLog, dnc, dCall, dLog>>

\* ------------------------------------------------------ dummy net.Conn
\* src/dummyNetConn.go. The channels in, out and control have no buffer: a
\* send and its receive are one step. A call that is in its select has
\* pc = "select"; the server goroutine takes it from there.

\* the methods, the buffers written (the tests write "" and "1") and the
\* lengths of the buffers read into
Setters == {"WriteLock", "WriteUnlock", "WriteError", "WriteSuccess",
            "ReadLock", "ReadUnlock", "ReadError", "ReadSuccess"}
Methods == {"Close", "Write", "Read"} \cup Setters
WriteBufs == {<<>>, <<1>>}
ReadLens == {0, 1}
Args(op) == IF op = "Write" THEN WriteBufs
            ELSE IF op = "Read" THEN ReadLens ELSE {0}

\* lines 221-261: WriteError, WriteSuccess, ReadError and ReadSuccess are
\* two calls of Control, the first one with the unlock
Stages(op) ==
    IF op \in {"WriteError", "WriteSuccess", "ReadError", "ReadSuccess"}
      THEN 2 ELSE 1

\* the value a call sends over control (lines 142, 203, 211-261)
CtlOf(op, stage) ==
    IF op = "Close" THEN "nil"
    ELSE IF Stages(op) = 1 THEN op
    ELSE IF stage = 1
      THEN (IF op \in {"WriteError", "WriteSuccess"} THEN "WriteUnlock"
                                                      ELSE "ReadUnlock")
    ELSE op

\* what reply may return for b: the loopback of the tests
\* (src/dummyNetConn_test.go:41), or nothing
Replies(b) == {b, <<>>}

Min(a, b) == IF a < b THEN a ELSE b

\* the first n items of s dropped
RECURSIVE Drop(_, _)
Drop(s, n) == IF n = 0 \/ s = <<>> THEN s ELSE Drop(Tail(s), n - 1)

\* a call and its result: at is "after" when the call is made after done was
\* closed, "blocked" when it is in its select when done is closed, else
\* "open"; served tells that the server has received it
Called(op, b, at_) ==
    [op |-> op, b |-> b, ret |-> FALSE, n |-> 0, err |-> "nil",
     at |-> at_, served |-> FALSE]

\* the call of goroutine p returns (n, err)
Returns(p, n, err) ==
    /\ dCall' = [dCall EXCEPT ![p] = NoCall]
    /\ dLog' = [dLog EXCEPT ![dCall[p].k] =
                   [@ EXCEPT !.ret = TRUE, !.n = n, !.err = err]]

\* a goroutine calls a method: it arrives at the select of Close (141),
\* Write (165), Read (187) or Control (202). (Idle goroutines are
\* interchangeable: the one with the lowest number makes the next call.)
Call(p, op, b) ==
    /\ dCall[p].pc = "idle"
    /\ \A q \in DProcs : q < p => dCall[q].pc # "idle"
    /\ Len(dLog) < DNCCalls
    /\ dCall' = [dCall EXCEPT ![p] =
          [pc |-> "select", op |-> op, b |-> b, stage |-> 1,
           k |-> Len(dLog) + 1]]
    /\ dLog' = Append(dLog, Called(op, b, IF dnc.pc = "done" THEN "after"
                                                               ELSE "open"))
    /\ UNCHANGED <<seqid, seqChan, reqChan, cookieChan, eventChan, cookies, tPc,
                   tCk, sPc, sReq, sDrain, rPc, rCk, buf, rErr, rSeq, replyBytes,
                   rEvent, goSend, wire, written, seqLog, enqLog, outLog,
                   nFrames, fate, returned, yielded, base, conf, wasFull, closed,
                   failed, exited, setup, xidChan, last, xPc, xids, errLog, dnc>>

\* line 78: case dxsio := <-in, with the send of line 166
server_in(p) ==
    /\ dnc.pc = "select"
    /\ dnc.in
    /\ dCall[p].pc = "select" /\ dCall[p].op = "Write"
    /\ dnc' = [dnc EXCEPT !.pc = "write", !.cur = p]
    /\ dCall' = [dCall EXCEPT ![p].pc = "result"]
    /\ dLog' = [dLog EXCEPT ![dCall[p].k].served = TRUE]
    /\ UNCHANGED <<seqid, seqChan, reqChan, cookieChan, eventChan, cookies, tPc,
                   tCk, sPc, sReq, sDrain, rPc, rCk, buf, rErr, rSeq, replyBytes,
                   rEvent, goSend, wire, written, seqLog, enqLog, outLog,
                   nFrames, fate, returned, yielded, base, conf, wasFull, closed,
                   failed, exited, setup, xidChan, last, xPc, xids, errLog>>

\* lines 79-91: the write fails, or reply's result goes into the buffer;
\* Write receives the result (167-168)
server_write ==
    /\ dnc.pc = "write"
    /\ LET p == dnc.cur
           b == dCall[p].b
       IN IF dnc.errorWrite
            THEN /\ dnc' = [dnc EXCEPT !.pc = "select", !.cur = 0]
                 /\ Returns(p, 0, "dNCErrWrite")
            ELSE \E response \in Replies(b) :
                 /\ dnc' = [dnc EXCEPT
                       !.pc = "select", !.cur = 0,
                       !.buf = @ \o response,
                       !.out = IF ~dnc.lockRead /\ Len(dnc.buf \o response) > 0
                                  /\ ~dnc.out
                                 THEN TRUE ELSE @]
                 /\ Returns(p, Len(b), "nil")
    /\ UNCHANGED <<seqid, seqChan, reqChan, cookieChan, eventChan, cookies, tPc,
                   tCk, sPc, sReq, sDrain, rPc, rCk, buf, rErr, rSeq, replyBytes,
                   rEvent, goSend, wire, written, seqLog, enqLog, outLog,
                   nFrames, fate, returned, yielded, base, conf, wasFull, closed,
                   failed, exited, setup, xidChan, last, xPc, xids, errLog>>

\* line 92: case dxsio := <-out, with the send of line 188
server_out(p) ==
    /\ dnc.pc = "select"
    /\ dnc.out
    /\ dCall[p].pc = "select" /\ dCall[p].op = "Read"
    /\ dnc' = [dnc EXCEPT !.pc = "read", !.cur = p]
    /\ dCall' = [dCall EXCEPT ![p].pc = "result"]
    /\ dLog' = [dLog EXCEPT ![dCall[p].k].served = TRUE]
    /\ UNCHANGED <<seqid, seqChan, reqChan, cookieChan, eventChan, cookies, tPc,
                   tCk, sPc, sReq, sDrain, rPc, rCk, buf, rErr, rSeq, replyBytes,
                   rEvent, goSend, wire, written, seqLog, enqLog, outLog,
                   nFrames, fate, returned, yielded, base, conf, wasFull, closed,
                   failed, exited, setup, xidChan, last, xPc, xids, errLog>>

\* lines 93-103: the read fails, or buf.Read(dxsio.b) takes what fits (an
\* empty bytes.Buffer gives io.EOF to a buffer that has room); Read receives
\* the result (189-190)
server_read ==
    /\ dnc.pc = "read"
    /\ LET p == dnc.cur
           n == Min(dCall[p].b, Len(dnc.buf))
       IN IF dnc.errorRead
            THEN /\ dnc' = [dnc EXCEPT !.pc = "select", !.cur = 0]
                 /\ Returns(p, 0, "dNCErrRead")
            ELSE /\ dnc' = [dnc EXCEPT
                       !.pc = "select", !.cur = 0,
                       !.buf = Drop(@, n),
                       !.out = IF Len(dnc.buf) - n = 0 THEN FALSE ELSE @]
                 /\ Returns(p, n,
                       IF dnc.buf = <<>> /\ dCall[p].b > 0 THEN "io.EOF"
                                                           ELSE "nil")
    /\ UNCHANGED <<seqid, seqChan, reqChan, cookieChan, eventChan, cookies, tPc,
                   tCk, sPc, sReq, sDrain, rPc, rCk, buf, rErr, rSeq, replyBytes,
                   rEvent, goSend, wire, written, seqLog, enqLog, outLog,
                   nFrames, fate, returned, yielded, base, conf, wasFull, closed,
                   failed, exited, setup, xidChan, last, xPc, xids, errLog>>

\* lines 104-131 for the value ci: the locals s after the switch
Switch(s, ci) ==
    IF ci = "WriteLock" THEN [s EXCEPT !.in = FALSE]
    ELSE IF ci = "WriteUnlock" THEN [s EXCEPT !.in = TRUE]
    ELSE IF ci = "WriteError" THEN [s EXCEPT !.errorWrite = TRUE]
    ELSE IF ci = "WriteSuccess" THEN [s EXCEPT !.errorWrite = FALSE]
    ELSE IF ci = "ReadLock" THEN [s EXCEPT !.out = FALSE, !.lockRead = TRUE]
    ELSE IF ci = "ReadUnlock"
      THEN [s EXCEPT !.lockRead = FALSE,
                     !.out = IF Len(s.buf) > 0 /\ ~s.out THEN TRUE ELSE @]
    ELSE IF ci = "ReadError" THEN [s EXCEPT !.errorRead = TRUE]
    ELSE IF ci = "ReadSuccess" THEN [s EXCEPT !.errorRead = FALSE]
    ELSE s

\* the server after the calls of a method were served one after the other
RECURSIVE After(_, _, _)
After(s, op, stage) ==
    IF stage > Stages(op) THEN s
    ELSE After(Switch(s, CtlOf(op, stage)), op, stage + 1)

\* a new server that was put into a read mode and a write mode, as the
\* tests do (src/dummyNetConn_test.go:41-53)
ReadModes == {"ReadLock", "ReadError", "ReadSuccess"}
WriteModes == {"WriteLock", "WriteError", "WriteSuccess"}
Servers ==
    {After(After(newDummyNetConn, r, 1), w, 1) : r \in ReadModes, w \in WriteModes}

\* the calls that are in their select when done is closed
NoteClosed(log, p) ==
    [k \in 1..Len(log) |->
        IF \E q \in DProcs : q # p /\ dCall[q].pc = "select" /\ dCall[q].k = k
          THEN [log[k] EXCEPT !.at = "blocked"] ELSE log[k]]

\* (mutant) the server goes on after the nil of Close
server_control_goesOn(p) ==
    /\ dnc.pc = "select"
    /\ dCall[p].pc = "select" /\ dCall[p].op \notin {"Write", "Read"}
    /\ LET c == dCall[p]
           ci == CtlOf(c.op, c.stage)
       IN IF ci = "nil"
            THEN /\ UNCHANGED dnc
                 /\ Returns(p, 0, "nil")
            ELSE /\ dnc' = Switch(dnc, ci)
                 /\ IF c.stage < Stages(c.op)
                      THEN /\ dCall' = [dCall EXCEPT ![p].stage = 2]
                           /\ UNCHANGED dLog
                      ELSE Returns(p, 0, "nil")
    /\ UNCHANGED <<seqid, seqChan, reqChan, cookieChan, eventChan, cookies, tPc,
                   tCk, sPc, sReq, sDrain, rPc, rCk, buf, rErr, rSeq, replyBytes,
                   rEvent, goSend, wire, written, seqLog, enqLog, outLog,
                   nFrames, fate, returned, yielded, base, conf, wasFull, closed,
                   failed, exited, setup, xidChan, last, xPc, xids, errLog>>

\* line 104: case ci := <-s.control, with the send of line 142 or 203. For
\* nil the goroutine returns and done is closed (75, 105-107), and Close
\* goes on to <-s.done; else the switch of lines 108-130 is done and Control
\* returns nil (204)
server_control(p) ==
    /\ dnc.pc = "select"
    /\ dCall[p].pc = "select" /\ dCall[p].op \notin {"Write", "Read"}
    /\ LET c == dCall[p]
           ci == CtlOf(c.op, c.stage)
       IN IF ci = "nil"
            THEN /\ dnc' = [dnc EXCEPT !.pc = "done"]
                 /\ dCall' = [dCall EXCEPT ![p].pc = "waitDone"]
                 /\ dLog' = NoteClosed(dLog, p)
            ELSE /\ dnc' = Switch(dnc, ci)
                 /\ IF c.stage < Stages(c.op)
                      THEN /\ dCall' = [dCall EXCEPT ![p].stage = 2]
                           /\ UNCHANGED dLog
                      ELSE Returns(p, 0, "nil")
    /\ UNCHANGED <<seqid, seqChan, reqChan, cookieChan, eventChan, cookies, tPc,
                   tCk, sPc, sReq, sDrain, rPc, rCk, buf, rErr, rSeq, replyBytes,
                   rEvent, goSend, wire, written, seqLog, enqLog, outLog,
                   nFrames, fate, returned, yielded, base, conf, wasFull, closed,
                   failed, exited, setup, xidChan, last, xPc, xids, errLog>>

\* lines 143-144: <-s.done, return nil
Close_done(p) ==
    /\ dCall[p].pc = "waitDone"
    /\ dnc.pc = "done"
    /\ Returns(p, 0, "nil")
    /\ UNCHANGED <<seqid, seqChan, reqChan, cookieChan, eventChan, cookies, tPc,
                   tCk, sPc, sReq, sDrain, rPc, rCk, buf, rErr, rSeq, replyBytes,
                   rEvent, goSend, wire, written, seqLog, enqLog, outLog,
                   nFrames, fate, returned, yielded, base, conf, wasFull, closed,
                   failed, exited, setup, xidChan, last, xPc, xids, errLog, dnc>>

\* lines 145-147: case <-s.done, return dNCErrClosed
Close_closed(p) ==
    /\ dCall[p].pc = "select" /\ dCall[p].op = "Close"
    /\ dnc.pc = "done"
    /\ Returns(p, 0, "dNCErrClosed")
    /\ UNCHANGED <<seqid, seqChan, reqChan, cookieChan, eventChan, cookies, tPc,
                   tCk, sPc, sReq, sDrain, rPc, rCk, buf, rErr, rSeq, replyBytes,
                   rEvent, goSend, wire, written, seqLog, enqLog, outLog,
                   nFrames, fate, returned, yielded, base, conf, wasFull, closed,
                   failed, exited, setup, xidChan, last, xPc, xids, errLog, dnc>>

\* lines 169-171: case <-s.done, return 0, dNCErrClosed
Write_closed(p) ==
    /\ dCall[p].pc = "select" /\ dCall[p].op = "Write"
    /\ dnc.pc = "done"
    /\ Returns(p, 0, "dNCErrClosed")
    /\ UNCHANGED <<seqid, seqChan, reqChan, cookieChan, eventChan, cookies, tPc,
                   tCk, sPc, sReq, sDrain, rPc, rCk, buf, rErr, rSeq, replyBytes,
                   rEvent, goSend, wire, written, seqLog, enqLog, outLog,
                   nFrames, fate, returned, yielded, base, conf, wasFull, closed,
                   failed, exited, setup, xidChan, last, xPc, xids, errLog, dnc>>

\* (mutant) Read on a closed server returns dNCErrClosed as Write does
Read_closed_asWrite(p) ==
    /\ dCall[p].pc = "select" /\ dCall[p].op = "Read"
    /\ dnc.pc = "done"
    /\ Returns(p, 0, "dNCErrClosed")
    /\ UNCHANGED <<seqid, seqChan, reqChan, cookieChan, eventChan, cookies, tPc,
                   tCk, sPc, sReq, sDrain, rPc, rCk, buf, rErr, rSeq, replyBytes,
                   rEvent, goSend, wire, written, seqLog, enqLog, outLog,
                   nFrames, fate, returned, yielded, base, conf, wasFull, closed,
                   failed, exited, setup, xidChan, last, xPc, xids, errLog, dnc>>

\* lines 191-193: case <-s.done, return 0, io.EOF
Read_closed(p) ==
    /\ dCall[p].pc = "select" /\ dCall[p].op = "Read"
    /\ dnc.pc = "done"
    /\ Returns(p, 0, "io.EOF")
    /\ UNCHANGED <<seqid, seqChan, reqChan, cookieChan, eventChan, cookies, tPc,
                   tCk, sPc, sReq, sDrain, rPc, rCk, buf, rErr, rSeq, replyBytes,
                   rEvent, goSend, wire, written, seqLog, enqLog, outLog,
                   nFrames, fate, returned, yielded, base, conf, wasFull, closed,
                   failed, exited, setup, xidChan, last, xPc, xids, errLog, dnc>>

\* lines 205-207: case <-s.done, return dNCErrClosed; the methods that call
\* Control return what it returns (212-260)
Control_closed(p) ==
    /\ dCall[p].pc = "select" /\ dCall[p].op \in Setters
    /\ dnc.pc = "done"
    /\ Returns(p, 0, "dNCErrClosed")
    /\ UNCHANGED <<seqid, seqChan, reqChan, cookieChan, eventChan, cookies, tPc,
                   tCk, sPc, sReq, sDrain, rPc, rCk, buf, rErr, rSeq, replyBytes,
                   rEvent, goSend, wire, written, seqLog, enqLog, outLog,
                   nFrames, fate, returned, yielded, base, conf, wasFull, closed,
                   failed, exited, setup, xidChan, last, xPc, xids, errLog, dnc>>
\* ------------------------------------------------------------- the system
\* generateSeqIds waits for nothing but room in seqChan, and nothing else
\* depends on how full seqChan is: it is let run whenever it can, and the
\* other goroutines take their steps when seqChan is full
seqReady == Len(seqChan) = seqBuffer

Next ==
    \/ generateSeqIds
    \/ seqReady /\ \E t \in Threads, ch \in BOOLEAN, rp \in BOOLEAN :
                      AppNewCookie(t, ch, rp)
    \/ seqReady /\ \E t \in Threads : newRequest(t)
    \/ seqReady /\ \E c \in AppCookies : AppReply(c)
    \/ seqReady /\ \E c \in AppCookies : AppCheck(c)
    \/ seqReady /\ WaitForEvent
    \/ seqReady /\ sendRequests_recv
    \/ seqReady /\ sendRequests_drainNew
    \/ seqReady /\ sendRequests_drainSeq
    \/ seqReady /\ sendRequests_drainEnq
    \/ seqReady /\ sendRequests_drainWrite
    \/ seqReady /\ sendRequests_drainWait
    \/ seqReady /\ sendRequests_seq
    \/ seqReady /\ sendRequests_enq
    \/ seqReady /\ sendRequests_write
    \/ seqReady /\ \E f \in Frames : readResponses_read(f)
    \/ seqReady /\ readResponses_evSend
    \/ seqReady /\ \E i \in 1..Len(goSend) : goSend_eval(i)
    \/ seqReady /\ \E i \in 1..Len(goSend) : goSend_send(i)
    \/ seqReady /\ readResponses_next
    \/ seqReady /\ readResponses_error
    \/ seqReady /\ readResponses_ping
    \/ seqReady /\ readResponses_reply
    \/ seqReady /\ readResponses_retire

Spec == Init /\ [][Next]_vars

\* the same system with more requests after the round trip
SpecDrain == InitDrain /\ [][Next]_vars

\* the same system with an application that also calls PollForEvent
NextEv ==
    \/ Next
    \/ seqReady /\ PollForEvent

SpecEv == InitEv /\ [][NextEv]_vars

\* the same system with a connection that is closed at some time
NextClose ==
    \/ Next
    \/ seqReady /\ Close
    \/ seqReady /\ sendRequests_writeFail
    \/ seqReady /\ readResponses_readFail

SpecClose == InitClose /\ [][NextClose]_vars

\* generateXIds and NewId, which share nothing with the other goroutines
NextXid ==
    \/ generateXIds_noMore
    \/ generateXIds_next
    \/ NewId

SpecXid == InitXid /\ [][NextXid]_vars

\* the same system with an application that also calls reply() and Check()
\* on cookies of the other kinds
NextQueue ==
    \/ Next
    \/ seqReady /\ \E c \in AppCookies : AppReplyVoid(c)
    \/ seqReady /\ \E c \in AppCookies : AppCheckOther(c)

SpecQueue == InitQueue /\ [][NextQueue]_vars

\* the same system with one goroutine that makes unchecked requests, also
\* during a round trip
NextBlock ==
    \/ generateSeqIds
    \/ seqReady /\ \E t \in Threads, ch \in BOOLEAN, rp \in BOOLEAN :
                      AppNewCookie(t, ch, rp)
    \/ seqReady /\ \E t \in Threads : newRequest(t)
    \/ seqReady /\ \E c \in AppCookies : AppReply(c)
    \/ seqReady /\ WaitForEvent
    \/ seqReady /\ sendRequests_recv
    \/ seqReady /\ sendRequests_drainNew
    \/ seqReady /\ sendRequests_drainSeq
    \/ seqReady /\ sendRequests_drainEnq
    \/ seqReady /\ sendRequests_drainWrite
    \/ seqReady /\ sendRequests_drainWait
    \/ seqReady /\ sendRequests_seq
    \/ seqReady /\ sendRequests_enq
    \/ seqReady /\ sendRequests_write
    \/ seqReady /\ \E f \in Frames : readResponses_read(f)
    \/ seqReady /\ readResponses_evSend
    \/ seqReady /\ \E i \in 1..Len(goSend) : goSend_eval(i)
    \/ seqReady /\ \E i \in 1..Len(goSend) : goSend_send(i)
    \/ seqReady /\ readResponses_next
    \/ seqReady /\ readResponses_error
    \/ seqReady /\ readResponses_ping
    \/ seqReady /\ readResponses_reply
    \/ seqReady /\ readResponses_retire

SpecBlock == InitBlock /\ [][NextBlock]_vars

\* the same system with the error frames noted
SpecErr == InitErr /\ [][Next]_vars

\* the requests and the replies to them, with a server that also sends
\* replies whose length field is around 2^30
NextLen ==
    \/ generateSeqIds
    \/ seqReady /\ \E t \in Threads, ch \in BOOLEAN, rp \in BOOLEAN :
                      AppNewCookie(t, ch, rp)
    \/ seqReady /\ \E t \in Threads : newRequest(t)
    \/ seqReady /\ \E c \in AppCookies : AppReply(c)
    \/ seqReady /\ \E c \in AppCookies : AppCheck(c)
    \/ seqReady /\ sendRequests_recv
    \/ seqReady /\ sendRequests_seq
    \/ seqReady /\ sendRequests_enq
    \/ seqReady /\ sendRequests_write
    \/ seqReady /\ \E f \in LongFrames : readResponses_read(f)
    \/ seqReady /\ \E f \in LongFrames : readResponses_readShort(f)
    \/ seqReady /\ readResponses_next
    \/ seqReady /\ readResponses_reply
    \/ seqReady /\ readResponses_retire

SpecLen == InitLen /\ [][NextLen]_vars

\* the steps of sendRequests
Submitter ==
    \/ sendRequests_recv
    \/ sendRequests_drainNew
    \/ sendRequests_drainSeq
    \/ sendRequests_drainEnq
    \/ sendRequests_drainWrite
    \/ sendRequests_drainWait
    \/ sendRequests_seq
    \/ sendRequests_enq
    \/ sendRequests_write

\* the steps of readResponses, with a server that answers every request that
\* has a reply and sends nothing else (NextLive has the same steps)
Receiver ==
    \/ \E f \in AnswerFrames : readResponses_read(f)
    \/ readResponses_next
    \/ readResponses_error
    \/ readResponses_ping
    \/ readResponses_reply
    \/ readResponses_retire

\* the application makes requests, calls Reply() and Check() and reads
\* events
NextLive ==
    \/ generateSeqIds
    \/ seqReady /\ \E t \in Threads, ch \in BOOLEAN, rp \in BOOLEAN :
                      AppNewCookie(t, ch, rp)
    \/ seqReady /\ \E t \in Threads : newRequest(t)
    \/ seqReady /\ \E c \in AppCookies : AppReply(c)
    \/ seqReady /\ \E c \in AppCookies : AppCheck(c)
    \/ seqReady /\ WaitForEvent
    \/ seqReady /\ sendRequests_recv
    \/ seqReady /\ sendRequests_drainNew
    \/ seqReady /\ sendRequests_drainSeq
    \/ seqReady /\ sendRequests_drainEnq
    \/ seqReady /\ sendRequests_drainWrite
    \/ seqReady /\ sendRequests_drainWait
    \/ seqReady /\ sendRequests_seq
    \/ seqReady /\ sendRequests_enq
    \/ seqReady /\ sendRequests_write
    \/ seqReady /\ \E f \in AnswerFrames : readResponses_read(f)
    \/ seqReady /\ readResponses_next
    \/ seqReady /\ readResponses_error
    \/ seqReady /\ readResponses_ping
    \/ seqReady /\ readResponses_reply
    \/ seqReady /\ readResponses_retire

\* every goroutine that can take a step takes one in the end: the Go
\* scheduler starves no runnable goroutine; the connection delivers what the
\* server sent; the application goes on reading events and waits in Reply()
SpecLive ==
    /\ InitLive
    /\ [][NextLive]_vars
    /\ WF_vars(generateSeqIds)
    /\ WF_vars(seqReady /\ Submitter)
    /\ WF_vars(seqReady /\ Receiver)
    /\ WF_vars(seqReady /\ WaitForEvent)
    /\ WF_vars(seqReady /\ \E c \in AppCookies : AppReply(c))

\* the steps of the server goroutine of a dummy net.Conn (NextDNC has the
\* same steps)
Server ==
    \/ \E p \in DProcs : server_in(p)
    \/ server_write
    \/ \E p \in DProcs : server_out(p)
    \/ server_read
    \/ \E p \in DProcs : server_control(p)

\* a dummy net.Conn, its server goroutine and the goroutines that call its
\* methods
NextDNC ==
    \/ \E p \in DProcs, op \in Methods : \E b \in Args(op) : Call(p, op, b)
    \/ \E p \in DProcs : server_in(p)
    \/ server_write
    \/ \E p \in DProcs : server_out(p)
    \/ server_read
    \/ \E p \in DProcs : server_control(p)
    \/ \E p \in DProcs : Close_done(p)
    \/ \E p \in DProcs : Close_closed(p)
    \/ \E p \in DProcs : Write_closed(p)
    \/ \E p \in DProcs : Read_closed(p)
    \/ \E p \in DProcs : Control_closed(p)

\* a dummy net.Conn in any read mode and write mode
InitDNC ==
    /\ InitFields
    /\ dnc \in Servers
    /\ base = 0
    /\ seqid = 1
    /\ conf = Conf(cookieBuffer, eventBuffer, NThreads, MaxReqs, AllKinds,
                   MaxFrames, 0)
    /\ setup = Setup(6, 16)

\* the server goroutine and every goroutine that can leave its select are
\* scheduled in the end
SpecDNC ==
    /\ InitDNC
    /\ [][NextDNC]_vars
    /\ WF_vars(Server)
    /\ \A p \in DProcs :
          /\ WF_vars(Close_done(p))
          /\ WF_vars(Close_closed(p))
          /\ WF_vars(Write_closed(p))
          /\ WF_vars(Read_closed(p))
          /\ WF_vars(Control_closed(p))

\* the same system, started either at construction or shortly before the
\* sequence ids wrap
SpecWrap == InitWrap /\ [][Next]_vars

\* ------------------------------------------------------------ properties
RangeOf(s) == {s[i] : i \in 1..Len(s)}
IsPrefix(s, t) == Len(s) <= Len(t) /\ \A i \in 1..Len(s) : s[i] = t[i]

\* the request buffer written for cookie c
BufOf(c) == IF cookies[c].drain THEN getInputFocusRequest ELSE ReqBuf(c)

\* the buffers of the cookies of s, one after the other
RECURSIVE WireOf(_)
WireOf(s) == IF s = <<>> THEN <<>> ELSE BufOf(Head(s)) \o WireOf(Tail(s))

\* the items the application was or will be given through eventChan
EventItems ==
    RangeOf(eventChan)
    \cup {IF yielded[i].ev # Nil THEN yielded[i].ev ELSE yielded[i].err :
             i \in {j \in 1..Len(yielded) : yielded[j].got}}

\* the endpoints of cookie c hold nothing and nothing was returned for it
Untouched(c) ==
    /\ cookies[c].replyChan = <<>>
    /\ cookies[c].errorChan = <<>>
    /\ cookies[c].pingChan = <<>>

\* C1: counting every request written to the connection, round trips
\* included, the k-th one carries sequence number k mod 2^16: 1 first, then
\* one more each time, and 0 after 0xFFFF.
C1_SequenceOfKthRequest ==
    \A k \in 1..Len(written) :
        cookies[written[k]].Sequence = (base + k) % (SeqLast + 1)

\* C1 witness: past the wrap, a round-trip request carries 0 and the
\* application request after it carries 1
C1_Witness ==
    /\ base = WrapBase
    /\ Len(written) = 4
    /\ cookies[written[3]].drain
    /\ cookies[written[3]].Sequence = 0
    /\ cookies[written[4]].Sequence = 1

\* C2: with several application goroutines calling newRequest, the order in
\* which requests get their sequence ids, the order in which their cookies
\* enter cookieChan and the order of their buffers on the connection are one
\* and the same, and the connection holds the buffers whole, one after the other.
C2_OneOrder ==
    /\ IsPrefix(enqLog, seqLog)
    /\ IsPrefix(written, enqLog)
    /\ \A i, j \in 1..Len(seqLog) : i # j => seqLog[i] # seqLog[j]
    /\ Len(seqLog) <= Len(written) + 1
    /\ wire = WireOf(written)

\* C2 witness: the goroutine that made its cookie second submitted first, and
\* both requests are written
C2_Witness ==
    /\ Len(written) >= 2
    /\ written[1] = 2 /\ written[2] = 1
    /\ ~cookies[1].drain /\ ~cookies[2].drain

\* C3: sendRequests gives a request its sequence id and puts its cookie into
\* cookieChan before it writes the request; so when readResponses has read
\* an error or a reply for a request, the cookie of that request was put into
\* cookieChan before.
C3_EnqueuedBeforeWritten ==
    /\ \A c \in RangeOf(written) : c \in RangeOf(enqLog) /\ c \in RangeOf(seqLog)
    /\ sPc = "write" => sReq \in RangeOf(enqLog) /\ sReq \in RangeOf(seqLog)
    /\ sPc = "drainWrite" =>
          sDrain \in RangeOf(enqLog) /\ sDrain \in RangeOf(seqLog)
    /\ rPc = "loop" =>
          \A c \in Unanswered :
             cookies[c].Sequence = rSeq =>
                c \in RangeOf(cookieChan) /\ c \notin RangeOf(outLog)

\* C3 witness: readResponses has read the response to a request and is about
\* to look for its cookie, which is in cookieChan
C3_Witness ==
    /\ rPc = "loop"
    /\ \E c \in Unanswered :
          cookies[c].Sequence = rSeq /\ c \in RangeOf(cookieChan)

\* C4: cookies leave cookieChan in the order in which they entered it: of two
\* requests submitted one after the other, the first is resolved or retired
\* no later than the second.
C4_QueueIsFifo ==
    /\ IsPrefix(outLog, enqLog)
    /\ cookieChan = SubSeq(enqLog, Len(outLog) + 1, Len(enqLog))
    /\ \A i, j \in 1..Len(enqLog) :
          i < j /\ fate[enqLog[j]] # "new" => fate[enqLog[i]] # "new"

\* C4 witness: two cookies were in cookieChan together and both have left it
C4_Witness ==
    /\ Len(outLog) >= 2
    /\ fate[outLog[1]] # "new" /\ fate[outLog[2]] # "new"
    /\ nFrames = 1

\* C5: the bytes reply() returns for a request whose reply has L 4-byte units
\* after the header are the 32 bytes of the header and those units as the
\* server sent them, whenever reply() is called.
C5_ReplyBytesAsSent ==
    \A c \in 1..Len(cookies) :
        CheckedReply(cookies[c]) /\ returned[c].kind = "reply" =>
            LET b == returned[c].bytes IN
            /\ b.hdr.b0 = 1
            /\ b.hdr.seq = cookies[c].Sequence
            /\ b.ext = ExtOf(b.hdr.tag, b.hdr.len)

\* C5 for replies with L > 0 only
C5_LongReplyBytesAsSent ==
    \A c \in 1..Len(cookies) :
        CheckedReply(cookies[c]) /\ returned[c].kind = "reply"
        /\ returned[c].bytes.ext # <<>> =>
            LET b == returned[c].bytes IN
            /\ b.hdr.b0 = 1
            /\ b.hdr.seq = cookies[c].Sequence
            /\ b.ext = ExtOf(b.hdr.tag, b.hdr.len)

\* C6: the error decoded from the frame the server sends for a checked
\* request goes to the error channel of its cookie and nowhere else: reply()
\* / Check() return it, with the sequence id of the request, and nothing is
\* put into eventChan for it.
C6_CheckedErrorToCookie ==
    \A c \in RangeOf(seqLog) :
        cookies[c].hasError =>
            /\ \A i \in 1..Len(cookies[c].errorChan) :
                  /\ cookies[c].errorChan[i].t = "error"
                  /\ cookies[c].errorChan[i].seq = cookies[c].Sequence
            /\ returned[c].kind = "error" =>
                  /\ returned[c].err.t = "error"
                  /\ returned[c].err.seq = cookies[c].Sequence
            /\ \A e \in EventItems \cup {goSend[i].val : i \in 1..Len(goSend)} :
                  ~(e.t = "error" /\ e.seq = cookies[c].Sequence)
            /\ fate[c] = "matched" =>
                  Len(cookies[c].errorChan) + Len(cookies[c].replyChan)
                     + (IF returned[c].kind \in {"error", "reply"} THEN 1 ELSE 0) = 1

\* C6 witness: a CheckedReply request and a CheckedVoid request were both
\* answered with an error, and reply() and Check() have returned them
C6_Witness ==
    \E c, d \in 1..Len(cookies) :
        /\ CheckedReply(cookies[c]) /\ ~cookies[c].drain
        /\ CheckedVoid(cookies[d])
        /\ returned[c].kind = "error" /\ returned[d].kind = "error"

\* C7: the error the server sends for an unchecked request is put into
\* eventChan; an unchecked cookie with a reply channel is pinged after that,
\* so when reply() returns (nil, nil) the error is in eventChan or was
\* already given out by WaitForEvent.
C7_UncheckedErrorToEvents ==
    \A c \in RangeOf(seqLog) :
        ~cookies[c].hasError =>
            /\ cookies[c].pingChan # <<>> \/ returned[c].kind = "nil" =>
                  \E e \in EventItems : e.t = "error" /\ e.seq = cookies[c].Sequence
            /\ fate[c] = "matched" /\ cookies[c].replyChan = <<>>
                  /\ returned[c].kind # "reply" =>
                  \E e \in EventItems : e.t = "error" /\ e.seq = cookies[c].Sequence
            /\ returned[c].kind \in {"none", "nil", "reply"}

\* C7 witness: reply() has returned (nil, nil) for an UncheckedReply request
\* and its error is the one item of eventChan
C7_Witness ==
    \E c \in 1..Len(cookies) :
        /\ UncheckedReply(cookies[c])
        /\ returned[c].kind = "nil"
        /\ Len(eventChan) = 1
        /\ eventChan[1].t = "error" /\ eventChan[1].seq = cookies[c].Sequence
        /\ yielded = <<>>

\* C8: when a frame carries the sequence id of cookie H, each CheckedVoid
\* cookie ahead of H in cookieChan gets one ping, so that Check() returns
\* nil for it, each UncheckedVoid cookie ahead of H gets nothing, and H gets
\* the response: the error, or the reply that its reply channel takes.
C8_RetiredAheadOfMatch ==
    /\ \A c \in 1..Len(cookies) :
          fate[c] = "retired" =>
             IF CheckedVoid(cookies[c])
               THEN /\ Len(cookies[c].pingChan)
                         + (IF returned[c].kind = "nil" THEN 1 ELSE 0) = 1
                    /\ cookies[c].errorChan = <<>>
                    /\ returned[c].kind \in {"none", "nil"}
               ELSE /\ Untouched(c)
                    /\ returned[c].kind = "none"
                    /\ \A e \in EventItems : e.seq # cookies[c].Sequence
    /\ \A c \in 1..Len(cookies) :
          fate[c] = "matched" =>
             Len(cookies[c].errorChan) + Len(cookies[c].replyChan)
                + (IF returned[c].kind \in {"error", "reply"} THEN 1 ELSE 0)
                + Cardinality({e \in EventItems :
                                 e.t = "error" /\ e.seq = cookies[c].Sequence}) = 1
    /\ \A i, j \in 1..Len(outLog) :
          i < j /\ fate[outLog[j]] = "matched" => fate[outLog[i]] # "new"

\* C8 witness: two CheckedVoid requests and one error frame, for the second:
\* Check() has returned nil for the first and the error for the second
C8_Witness ==
    /\ nFrames = 1
    /\ Len(outLog) = 2
    /\ CheckedVoid(cookies[outLog[1]]) /\ CheckedVoid(cookies[outLog[2]])
    /\ returned[outLog[1]].kind = "nil"
    /\ returned[outLog[2]].kind = "error"

\* the one request made is CheckedVoid and was written, the application makes
\* no other, the server has sent nothing, and sendRequests and readResponses
\* wait for the next request and the next frame
OnlyCheckedVoidAccepted ==
    /\ Len(cookies) = 1 /\ CheckedVoid(cookies[1])
    /\ written = <<1>>
    /\ nFrames = 0
    /\ sPc = "recv" /\ rPc = "read"
    /\ reqChan = <<>> /\ \A t \in Threads : tPc[t] = "idle"

\* C9: Check() on a CheckedVoid cookie returns when the request is the only
\* one outstanding, the server accepted it and sends nothing, and nothing
\* else is submitted: in that situation Check() has returned or can return.
C9_CheckReturns ==
    OnlyCheckedVoidAccepted => returned[1].kind # "none" \/ ENABLED AppCheck(1)

\* C9, the other half: Check() returns the error of a CheckedVoid request
\* that the server answered with an error
C9_CheckReturnsError ==
    \A c \in 1..Len(cookies) :
        CheckedVoid(cookies[c]) /\ fate[c] = "matched" =>
            returned[c].kind = "error" \/ ENABLED AppCheck(c)

\* C10, the test: a request taken from reqChan when cookieChan holds
\* cookieBuffer-1 cookies starts the round trip
C10_Trigger ==
    sPc = "recv" /\ sPc' # "recv" /\ Len(cookieChan) = conf.cookieBuffer - 1
        => sPc' = "drainNew"

\* C10, the order: the round-trip cookie is CheckedReply, gets the next
\* sequence id, enters cookieChan, GetInputFocus is written, and its reply or
\* error is awaited; until then the request taken has no sequence id, is not
\* in cookieChan and is not written
C10_Order ==
    /\ sPc \in {"drainNew", "drainSeq", "drainEnq", "drainWrite", "drainWait"} =>
          /\ sReq \notin RangeOf(seqLog)
          /\ sReq \notin RangeOf(enqLog)
          /\ sReq \notin RangeOf(written)
    /\ sPc \in {"drainSeq", "drainEnq", "drainWrite", "drainWait"} =>
          CheckedReply(cookies[sDrain])
    /\ sPc = "drainEnq" => seqLog # <<>> /\ seqLog[Len(seqLog)] = sDrain
    /\ sPc = "drainWrite" => enqLog # <<>> /\ enqLog[Len(enqLog)] = sDrain
    /\ sPc = "drainWait" =>
          /\ written # <<>> /\ written[Len(written)] = sDrain
          /\ wire = WireOf(SubSeq(written, 1, Len(written) - 1))
                       \o getInputFocusRequest
    /\ sPc \in {"seq", "enq", "write"} /\ sDrain # 0 =>
          /\ returned[sDrain].kind \in {"reply", "error"}
          /\ fate[sDrain] = "matched"
          /\ written[Len(written)] = sDrain
    /\ sPc \in {"seq", "enq"} /\ sDrain # 0 => cookieChan = <<>>
    /\ sPc = "write" /\ sDrain # 0 =>
          cookies[sReq].Sequence = NextSeq(cookies[sDrain].Sequence)

\* C10: when sendRequests takes a request and finds cookieBuffer-1 cookies in
\* cookieChan, it first makes the round trip (sequence id, cookie into
\* cookieChan, GetInputFocus written, reply or error awaited) and only then
\* gives the request its sequence id, queues its cookie and writes it.
C10_ForcedRoundTrip == [](C10_Order) /\ [][C10_Trigger]_vars

\* C10 witness: after a round trip that was answered with a reply, the
\* request that caused it is about to be written
C10_Witness ==
    /\ sPc = "write" /\ sDrain # 0
    /\ returned[sDrain].kind = "reply"

\* the cookies of the round trips
DrainCookies == {i \in 1..Len(cookies) : cookies[i].drain}

\* the server has answered the round trips and nothing else: no application
\* request was answered, and every frame read so far carried the sequence id
\* of a round trip and was given, or is being given, to its cookie
OnlyDrainsAnswered ==
    /\ \A c \in AppCookies : fate[c] \in {"new", "retired"}
    /\ nFrames = Cardinality({d \in DrainCookies : fate[d] = "matched"})
                   + (IF rPc \in {"loop", "handle"}
                         /\ \E d \in DrainCookies :
                               fate[d] = "new" /\ cookies[d].Sequence = rSeq
                       THEN 1 ELSE 0)

\* the requests written for application cookies, in the order written
AppWritten == SelectSeq(written, LAMBDA c : ~cookies[c].drain)

\* C11: with one goroutine submitting cookieBuffer requests and then one
\* more, and a server that answers none of them, sendRequests makes one
\* round trip: what is written is the application buffers in the order
\* submitted and one GetInputFocus request, which is the cookieBuffer-th
\* request written, after cookieBuffer-1 application buffers; the request
\* after that starts no second round trip.
C11_OneRoundTrip ==
    conf.threads = 1 /\ OnlyDrainsAnswered =>
        /\ Cardinality(DrainCookies) <= 1
        /\ \A k \in 1..Len(written) :
              cookies[written[k]].drain <=> k = conf.cookieBuffer
        /\ \A i, j \in 1..Len(AppWritten) : i < j => AppWritten[i] < AppWritten[j]
        /\ wire = WireOf(written)
        /\ Len(written) >= conf.cookieBuffer =>
              wire = WireOf(SubSeq(AppWritten, 1, conf.cookieBuffer - 1))
                       \o getInputFocusRequest
                       \o WireOf(SubSeq(AppWritten, conf.cookieBuffer,
                                         Len(AppWritten)))

\* C11 witness: cookieBuffer requests and a CheckedReply request after them
\* are written, with the one round trip in between, and the server has
\* answered the round trip only
C11_Witness ==
    /\ conf.threads = 1 /\ OnlyDrainsAnswered
    /\ Len(written) = conf.cookieBuffer + 2
    /\ cookies[written[conf.cookieBuffer]].drain
    /\ CheckedReply(cookies[written[conf.cookieBuffer + 2]])
    /\ returned[written[conf.cookieBuffer]].kind = "reply"

\* hdr is the header of a reply to the written request of cookie d
ReplyTo(hdr, d) ==
    d \in RangeOf(written) /\ hdr.b0 = 1 /\ hdr.seq = cookies[d].Sequence

\* e is the error the server sent for the written request of cookie d
ErrorTo(e, d) ==
    d \in RangeOf(written) /\ e.t = "error" /\ e.seq = cookies[d].Sequence

\* C12: the answer to a round trip is for sendRequests alone: no application
\* cookie holds or returns a reply or an error that carries the sequence id
\* of a round trip, nothing with that sequence id is in eventChan or was
\* given out by WaitForEvent, and the request that caused the round trip gets
\* its own reply.
C12_DrainAnswerInside ==
    \A d \in DrainCookies :
        /\ \A e \in EventItems \cup {goSend[i].val : i \in 1..Len(goSend)} :
              ~ErrorTo(e, d)
        /\ \A c \in AppCookies :
              /\ \A i \in 1..Len(cookies[c].replyChan) :
                    ~ReplyTo(Deref(cookies[c].replyChan[i]).hdr, d)
              /\ \A i \in 1..Len(cookies[c].errorChan) :
                    ~ErrorTo(cookies[c].errorChan[i], d)
              /\ returned[c].kind = "reply" => ~ReplyTo(returned[c].bytes.hdr, d)
              /\ returned[c].kind = "error" => ~ErrorTo(returned[c].err, d)
        /\ \A k \in 2..Len(written) :
              written[k - 1] = d /\ returned[written[k]].kind = "reply" =>
                  ReplyTo(returned[written[k]].bytes.hdr, written[k])

\* C12 for the cookie loop and the channels alone, leaving aside what a reply
\* slice that is buf itself shows later: the answer to a round trip goes to
\* the cookie of the round trip only
C12_DrainAnswerDispatch ==
    \A d \in DrainCookies :
        /\ \A e \in EventItems \cup {goSend[i].val : i \in 1..Len(goSend)} :
              ~ErrorTo(e, d)
        /\ \A c \in AppCookies :
              /\ \A i \in 1..Len(cookies[c].replyChan) :
                    ~ReplyTo(cookies[c].replyChan[i].hdr, d)
              /\ \A i \in 1..Len(cookies[c].errorChan) :
                    ~ErrorTo(cookies[c].errorChan[i], d)

\* readResponses is about to send the error of a cookie without an error
\* channel to eventChan (line 397)
AsyncErrorAtHand ==
    /\ rPc = "handle"
    /\ cookies[rCk].Sequence = rSeq
    /\ rErr # Nil
    /\ ~cookies[rCk].hasError

\* C13: readResponses never waits for room in eventChan: when it is about to
\* put a decoded event or the error of an unchecked request there, the send
\* can be done at once, however many items are unread.
C13_ReceiverNeverWaits ==
    /\ rPc = "evSend" => ENABLED readResponses_evSend
    /\ AsyncErrorAtHand => ENABLED readResponses_error

\* the items WaitForEvent and PollForEvent gave out, in the order given
RECURSIVE Taken(_)
Taken(ys) ==
    IF ys = <<>> THEN <<>>
    ELSE IF Head(ys).got
           THEN <<IF Head(ys).ev # Nil THEN Head(ys).ev ELSE Head(ys).err>>
                   \o Taken(Tail(ys))
           ELSE Taken(Tail(ys))

\* C14: while eventChan has never been full, the events and the errors of
\* unchecked requests that WaitForEvent and PollForEvent give out, followed
\* by those still in eventChan, are in the order in which their frames were
\* read from the connection, each of them once.
C14_ArrivalOrder ==
    ~wasFull =>
        LET items == Taken(yielded) \o eventChan IN
        /\ \A i \in 1..Len(items) : items[i].t \in {"event", "error"}
        /\ \A i, j \in 1..Len(items) : i < j => items[i].tag < items[j].tag

\* C14 witness: an event and the error of an unchecked request were given
\* out, one by WaitForEvent and one by PollForEvent, and eventChan was never
\* full
C14_Witness ==
    /\ ~wasFull
    /\ Len(Taken(yielded)) = 2
    /\ {Taken(yielded)[1].t, Taken(yielded)[2].t} = {"event", "error"}
    /\ \E i, j \in 1..Len(yielded) :
          /\ yielded[i].got /\ yielded[i].op = "wait"
          /\ yielded[j].got /\ yielded[j].op = "poll"

\* C15, the state: PollForEvent can always return, and what was returned is
\* an event with a nil error, an error with a nil event, or (nil, nil);
\* WaitForEvent returned only with an item taken
C15_Returns ==
    /\ Cardinality(EmptyPolls) < conf.polls => ENABLED PollForEvent
    /\ \A i \in 1..Len(yielded) :
          /\ ~(yielded[i].ev # Nil /\ yielded[i].err # Nil)
          /\ yielded[i].ev # Nil => yielded[i].ev.t = "event"
          /\ yielded[i].err # Nil => yielded[i].err.t = "error"
          /\ yielded[i].op = "wait" => yielded[i].got

\* C15, the step: a call that returns with eventChan empty is PollForEvent,
\* returns (nil, nil) and leaves eventChan empty; a call that returns with
\* eventChan not empty takes the oldest item and returns that item
C15_Step ==
    Len(yielded') = Len(yielded) + 1 =>
        LET y == yielded'[Len(yielded')] IN
        IF eventChan = <<>>
          THEN /\ y.op = "poll" /\ ~y.got
               /\ y.ev = Nil /\ y.err = Nil
               /\ eventChan' = <<>>
          ELSE /\ y.got
               /\ eventChan' = Tail(eventChan)
               /\ Head(eventChan).t = "event" =>
                     y.ev = Head(eventChan) /\ y.err = Nil
               /\ Head(eventChan).t = "error" =>
                     y.err = Head(eventChan) /\ y.ev = Nil

RECURSIVE LowBit(_)
LowBit(m) == IF m % 2 = 1 THEN 1 ELSE 2 * LowBit(m \div 2)

\* the number of ids the mask has room for
IdsInMask == setup.ResourceIdMask \div LowBit(setup.ResourceIdMask)

\* C16: inc is the lowest set bit of the mask, and while the ids of the mask
\* last, the k-th call of NewId, whoever makes it, returns (k*inc) | base
\* with a nil error; no two calls return the same id.
C16_KthId ==
    /\ inc = LowBit(setup.ResourceIdMask)
    /\ \A k \in 1..Len(xids) :
          k <= IdsInMask =>
              xids[k] = Xid(BitOr(k * LowBit(setup.ResourceIdMask),
                                  setup.ResourceIdBase), FALSE)
    /\ \A i, j \in 1..Len(xids) :
          i < j /\ j <= IdsInMask => xids[i].id # xids[j].id

\* C16 witness: with mask 12 and base 48 NewId has returned 52, 56 and 60
C16_Witness ==
    /\ setup = Setup(12, 48)
    /\ Len(xids) >= 3
    /\ xids[1] = Xid(52, FALSE) /\ xids[2] = Xid(56, FALSE)
    /\ xids[3] = Xid(60, FALSE)

\* C17: when the ids of the mask are used up, the next call of NewId returns
\* id 0 and an error, and so does every call after it.
C17_ExhaustionStays ==
    \A k \in 1..Len(xids) : k > IdsInMask => xids[k] = Xid(0, TRUE)

\* C17, the first call after the last id only
C17_FirstExhaustion ==
    \A k \in 1..Len(xids) : k = IdsInMask + 1 => xids[k] = Xid(0, TRUE)

\* a cookie of the application on which reply() has not returned yet
OpenReply(c) == cookies[c].hasReply /\ returned[c].kind = "none"

\* C18: closing the connection ends every wait: once the closed connection
\* has made a read or a write fail, WaitForEvent can return, and so can
\* reply() on every cookie it has not returned for yet.
C18_CloseEndsWaits ==
    closed /\ failed =>
        /\ ENABLED WaitForEvent
        /\ \A c \in AppCookies : OpenReply(c) => ENABLED AppReply(c)

\* a step of one of the goroutines started by NewConnDisplay
WorkerStep ==
    \/ generateSeqIds
    \/ sendRequests_recv \/ sendRequests_drainNew \/ sendRequests_drainSeq
    \/ sendRequests_drainEnq \/ sendRequests_drainWrite
    \/ sendRequests_drainWait \/ sendRequests_seq \/ sendRequests_enq
    \/ sendRequests_write \/ sendRequests_writeFail
    \/ \E f \in Frames : readResponses_read(f)
    \/ readResponses_readFail \/ readResponses_evSend
    \/ readResponses_next \/ readResponses_error \/ readResponses_ping
    \/ readResponses_reply \/ readResponses_retire
    \/ \E i \in 1..Len(goSend) : goSend_eval(i) \/ goSend_send(i)

\* C19: after Close the goroutines started by NewConnDisplay come to an end
\* by themselves: as long as they have not ended, one of them can take a step
\* without the application doing anything, so none of them stays blocked on a
\* channel or on the connection.
C19_WorkersEnd == closed /\ ~exited => ENABLED WorkerStep

Endpoints(ck) == <<ck.hasReply, ck.hasError, ck.hasPing>>

\* C21, the making: the cookie that newCookie(ch, rp) gives has
\* nothing in its channels, and has the channels of its kind
C21_Made ==
    \A t \in Threads, ch \in BOOLEAN, rp \in BOOLEAN :
        AppNewCookie(t, ch, rp) =>
            LET ck == cookies'[Len(cookies')] IN
            /\ ck.replyChan = <<>> /\ ck.errorChan = <<>> /\ ck.pingChan = <<>>
            /\ ch /\ rp => Endpoints(ck) = <<TRUE, TRUE, FALSE>>
            /\ ~ch /\ rp => Endpoints(ck) = <<TRUE, FALSE, TRUE>>
            /\ ch /\ ~rp => Endpoints(ck) = <<FALSE, TRUE, TRUE>>
            /\ ~ch /\ ~rp => Endpoints(ck) = <<FALSE, FALSE, FALSE>>

\* C21, the room: a channel that a cookie does not have holds nothing, a
\* channel that it has holds at most one item, and readResponses, when it
\* has an item for a channel of the cookie in hand, can send it at once
C21_Room ==
    /\ \A c \in 1..Len(cookies) :
          /\ Len(cookies[c].replyChan) <= (IF cookies[c].hasReply THEN 1 ELSE 0)
          /\ Len(cookies[c].errorChan) <= (IF cookies[c].hasError THEN 1 ELSE 0)
          /\ Len(cookies[c].pingChan) <= (IF cookies[c].hasPing THEN 1 ELSE 0)
    /\ rPc = "ping" => ENABLED readResponses_ping
    /\ rPc = "handle" /\ cookies[rCk].Sequence # rSeq => ENABLED readResponses_retire
    /\ rPc = "handle" /\ cookies[rCk].Sequence = rSeq /\ rErr = Nil =>
          ENABLED readResponses_reply
    /\ rPc = "handle" /\ cookies[rCk].Sequence = rSeq /\ rErr # Nil
          /\ cookies[rCk].hasError => ENABLED readResponses_error

\* C21: newCookie(checked, reply) gives a cookie with a reply and an error
\* channel for (true, true), a reply and a ping channel for (false, true), an
\* error and a ping channel for (true, false) and no channel for (false,
\* false); each channel there is takes one item without a receiver.
C21_CookieChannels == [](C21_Room) /\ [][C21_Made]_vars

\* C21 witness: a CheckedVoid cookie holds its ping and an UncheckedReply
\* cookie holds its reply, and neither was received
C21_Witness ==
    \E c, d \in AppCookies :
        /\ CheckedVoid(cookies[c]) /\ cookies[c].pingChan = <<TRUE>>
        /\ UncheckedReply(cookies[d]) /\ Len(cookies[d].replyChan) = 1
        /\ returned[c].kind = "none" /\ returned[d].kind = "none"

\* C22, the call: reply() on a cookie without a reply channel and Check() on
\* a cookie with a reply channel or without an error channel return the
\* error, and the channels of the cookie are as before
C22_Call ==
    \A c \in AppCookies :
        AppReplyVoid(c) \/ AppCheckOther(c) =>
            /\ returned'[c].kind = "usage"
            /\ cookies' = cookies

\* C22, no wait: such a call can return whatever the channels hold
C22_NoWait ==
    \A c \in AppCookies :
        returned[c].kind = "none" /\ ~exited =>
            /\ ~cookies[c].hasReply => ENABLED AppReplyVoid(c)
            /\ cookies[c].hasReply \/ ~cookies[c].hasError =>
                  ENABLED AppCheckOther(c)

\* C22: Check() on a cookie that has a reply channel or has no error
\* channel, and reply() on a cookie that has no reply channel, return an
\* error at once: they wait for nothing and take nothing out of the cookie.
C22_UsageErrors == [](C22_NoWait) /\ [][C22_Call]_vars

\* C22 witness: Check() was called on a cookie whose reply is in its reply
\* channel and reply() on a cookie whose ping is in its ping channel; both
\* items are still there
C22_Witness ==
    \E c, d \in AppCookies :
        /\ cookies[c].hasReply /\ Len(cookies[c].replyChan) = 1
        /\ returned[c].kind = "usage"
        /\ CheckedVoid(cookies[d]) /\ cookies[d].pingChan = <<TRUE>>
        /\ returned[d].kind = "usage"

\* C23, the ids: the cookie that gets its sequence id after the one that got
\* 0xFFFF gets 0, and what a cookie holds in its reply or error channel
\* carries the sequence id of the cookie
C23_Ids ==
    /\ \A i \in 2..Len(seqLog) :
          cookies[seqLog[i]].Sequence =
             (IF cookies[seqLog[i - 1]].Sequence = SeqLast
                THEN 0 ELSE cookies[seqLog[i - 1]].Sequence + 1)
    /\ \A c \in 1..Len(cookies) :
          /\ \A i \in 1..Len(cookies[c].replyChan) :
                cookies[c].replyChan[i].hdr.seq = cookies[c].Sequence
          /\ \A i \in 1..Len(cookies[c].errorChan) :
                cookies[c].errorChan[i].seq = cookies[c].Sequence

\* C23, the search: the cookie taken from cookieChan is the one looked for
\* when its sequence id equals seq, and is passed by when it differs, be it
\* larger or smaller
C23_Search ==
    rPc = "handle" /\ rPc' # "handle" =>
        IF cookies[rCk].Sequence = rSeq
          THEN fate'[rCk] \in {"matched", "noreply"}
          ELSE fate'[rCk] = "retired" /\ rPc' = "loop"

\* C23: the sequence id after 0xFFFF is 0, and a response with sequence
\* number 0 goes to the cookie that carries 0, while the cookies before it in
\* cookieChan, whose ids 0xFFFE, 0xFFFF are larger, are passed by as earlier
\* ones: the search compares for equality, in the order of cookieChan.
C23_WrapMatching == [](C23_Ids) /\ [][C23_Search]_vars

\* C23 witness: the cookie with sequence id 0xFFFF was passed by, and pinged,
\* when the reply with sequence number 0 was given to the cookie behind it
C23_Witness ==
    /\ Len(outLog) >= 2
    /\ cookies[outLog[1]].Sequence = SeqLast /\ fate[outLog[1]] = "retired"
    /\ cookies[outLog[1]].pingChan = <<TRUE>>
    /\ cookies[outLog[2]].Sequence = 0 /\ fate[outLog[2]] = "matched"
    /\ Len(cookies[outLog[2]].replyChan) = 1
    /\ nFrames = 1

\* no cookie was given sequence id s
NoCookieFor(s) == \A c \in RangeOf(seqLog) : cookies[c].Sequence # s

\* C24: a response whose sequence number no cookie carries is logged and
\* dropped, and readResponses goes on reading: it never waits at an empty
\* cookieChan for the cookie of such a response, to pass by the cookies that
\* are queued later.
C24_UnmatchedDropped ==
    ~(rPc = "loop" /\ cookieChan = <<>> /\ NoCookieFor(rSeq))

\* C25: the search for the cookie of a response ends when the cookie with
\* the sequence number of the response was taken from cookieChan, also when
\* the response is a reply and that cookie has no reply channel: while
\* readResponses takes cookies for a response, the cookie of the response
\* is not among those it has dealt with.
C25_DispatchEnds ==
    rPc \in {"loop", "handle"} =>
        \A c \in RangeOf(outLog) :
            cookies[c].Sequence = rSeq => c = rCk /\ fate[c] = "new"

\* C25 for the cookies that get the response: an error, or a reply for a
\* cookie with a reply channel
C25_DispatchEndsAtDelivery ==
    rPc \in {"loop", "handle"} =>
        \A c \in RangeOf(outLog) :
            cookies[c].Sequence = rSeq =>
                (c = rCk /\ fate[c] = "new") \/ fate[c] = "noreply"

\* C26: a cookie with a reply channel that readResponses passes by, because
\* the response it looks for belongs to a later cookie, is out of cookieChan
\* and gets nothing: its reply, error and ping channels stay empty, and
\* reply() on it does not return.
C26_SkippedReplyCookie ==
    \A c \in 1..Len(cookies) :
        cookies[c].hasReply /\ fate[c] = "retired" =>
            /\ c \notin RangeOf(cookieChan)
            /\ Untouched(c)
            /\ returned[c].kind \notin {"reply", "error", "nil"}
            /\ ~ENABLED AppReply(c)
            /\ sPc = "drainWait" /\ sDrain = c => ~ENABLED sendRequests_drainWait

\* C26 witness: an UncheckedReply cookie was passed by for the reply to the
\* cookie behind it; Reply() was not called for it or has not returned
C26_Witness ==
    /\ Len(outLog) >= 2
    /\ UncheckedReply(cookies[outLog[1]]) /\ fate[outLog[1]] = "retired"
    /\ returned[outLog[1]].kind = "none"
    /\ fate[outLog[2]] = "matched" /\ Len(cookies[outLog[2]].replyChan) = 1
    /\ rPc = "read"

\* the number of items cookie ck holds in its channels
Held(ck) == Len(ck.replyChan) + Len(ck.errorChan) + Len(ck.pingChan)

\* the number of items given to cookie c so far: those in its channels and
\* the one that reply() / Check() has received
Given(c) ==
    Held(cookies[c])
       + (IF returned[c].kind \in {"reply", "error", "nil"} THEN 1 ELSE 0)

\* readResponses is done with cookie c
DoneWith(c) == fate[c] # "new" /\ ~(rPc = "ping" /\ rCk = c)

\* C27, the count: a cookie is given at most one item, and a cookie that
\* was taken from cookieChan was put into it once and is not in it
C27_AtMostOne ==
    /\ \A c \in 1..Len(cookies) : Given(c) <= 1
    /\ \A i, j \in 1..Len(enqLog) : i # j => enqLog[i] # enqLog[j]
    /\ \A c \in RangeOf(outLog) : c \notin RangeOf(cookieChan)
    /\ \A c \in 1..Len(cookies) : fate[c] # "new" => c \in RangeOf(outLog)

\* C27, the end: once readResponses is done with a cookie, the cookie is
\* not given anything more, is not put into cookieChan, and stays done
C27_Terminal ==
    \A c \in 1..Len(cookies) :
        DoneWith(c) =>
            /\ Held(cookies'[c]) <= Held(cookies[c])
            /\ fate'[c] = fate[c]
            /\ c \notin RangeOf(cookieChan')
            /\ rCk' # c

\* C27: over a run a cookie is given at most one item, counting its reply,
\* error and ping channels together, and after it has left cookieChan it
\* does not come back and is given nothing more.
C27_ResolvedOnce == [](C27_AtMostOne) /\ [][C27_Terminal]_vars

\* C27 witness: the first cookie got its error and Check() or reply() has
\* returned it; after that readResponses has given a second response to the
\* cookie behind it
C27_Witness ==
    /\ Len(outLog) >= 2
    /\ fate[outLog[1]] = "matched" /\ returned[outLog[1]].kind = "error"
    /\ fate[outLog[2]] = "matched" /\ Held(cookies[outLog[2]]) = 1
    /\ nFrames = 2

\* C28: the cookies in cookieChan carry sequence ids that differ from one
\* another (cookieChan holds fewer than 2^16 cookies), so that at most one
\* of them carries the sequence number of a response.
C28_DistinctInQueue ==
    /\ conf.cookieBuffer <= SeqLast
    /\ \A i, j \in 1..Len(cookieChan) :
          i # j => cookies[cookieChan[i]].Sequence # cookies[cookieChan[j]].Sequence
    /\ rPc \in {"loop", "handle"} =>
          Cardinality({i \in 1..Len(cookieChan) :
                          cookies[cookieChan[i]].Sequence = rSeq}) <= 1

\* C28 witness: cookieChan is full, with the ids 0xFFFF and 0, and
\* readResponses looks for the cookie that carries 0
C28_Witness ==
    /\ Len(cookieChan) = conf.cookieBuffer
    /\ cookies[cookieChan[1]].Sequence = SeqLast
    /\ cookies[cookieChan[2]].Sequence = 0
    /\ rPc = "loop" /\ rSeq = 0

\* C29: cookieChan never holds more than cookieBuffer cookies, those of the
\* round trips included, and sendRequests never waits to put a cookie into
\* it: when it takes a request cookieChan holds at most cookieBuffer-1
\* cookies, so the test for cookieBuffer-1 is not passed over, and the
\* cookie of a request is queued behind fewer than cookieBuffer-1 others.
C29_QueueBounded ==
    /\ Len(cookieChan) <= conf.cookieBuffer
    /\ sPc = "recv" => Len(cookieChan) <= conf.cookieBuffer - 1
    /\ sPc \in {"seq", "enq"} => Len(cookieChan) < conf.cookieBuffer - 1
    /\ sPc \in {"drainNew", "drainSeq", "drainEnq"} =>
          Len(cookieChan) <= conf.cookieBuffer - 1
    /\ sPc = "enq" /\ ~exited => ENABLED sendRequests_enq
    /\ sPc = "drainEnq" /\ ~exited => ENABLED sendRequests_drainEnq

\* C29 witness: the cookie of a round trip has filled cookieChan, and the
\* request that caused the round trip is not queued yet
C29_Witness ==
    /\ Len(cookieChan) = conf.cookieBuffer
    /\ sPc = "drainWrite"
    /\ cookieChan[Len(cookieChan)] = sDrain
    /\ sReq \notin RangeOf(enqLog)

\* the cookie readResponses has in hand carries the sequence number of the
\* response, or a cookie queued after it does
TakenForAResponse ==
    \/ cookies[rCk].Sequence = rSeq
    \/ \E i, j \in 1..Len(enqLog) :
          i < j /\ enqLog[i] = rCk /\ cookies[enqLog[j]].Sequence = rSeq

\* C30: a cookie is taken out of cookieChan only for an error or a reply
\* that carries its own sequence number or that of a cookie queued after it;
\* so a CheckedVoid cookie is pinged only when a response to a later request
\* was read.
C30_LeavesForAResponse == rPc = "handle" => TakenForAResponse

\* C30 for the responses that are given to a cookie: those whose sequence
\* number some cookie carries, but for the reply to a cookie without a reply
\* channel
C30_LeavesForADelivery ==
    rPc = "handle" /\ ~NoCookieFor(rSeq)
       /\ (\A c \in RangeOf(outLog) :
              cookies[c].Sequence = rSeq => fate[c] # "noreply")
       => TakenForAResponse

\* the replies readResponses has read and not yet handed to reply()
RepliesRead ==
    {cookies[c].replyChan[1] : c \in {d \in 1..Len(cookies) : cookies[d].replyChan # <<>>}}
       \cup (IF rPc \in {"loop", "handle"} /\ rErr = Nil THEN {replyBytes} ELSE {})

\* C31: whatever the length field L of a reply header, readResponses reads
\* the 4*L bytes that follow and hands on 32 + 4*L bytes: the sum 32 + 4*L
\* does not wrap in 32 bits and the slice is never shorter than the header.
C31_WholeReply ==
    /\ ~exited
    /\ \A b \in RepliesRead : Len(b.ext) = b.hdr.len

\* C31 for the length fields L with 32 + 4*L below 2^32
C31_WholeReplyBelowWrap ==
    \A b \in RepliesRead :
        HeaderQuads + b.hdr.len < QuadMod => Len(b.ext) = b.hdr.len

\* C32: Check() on a CheckedVoid cookie returns nil only when readResponses
\* has read no error frame with the sequence number of the cookie, whatever
\* the error number of the frame, registered in newErrorFuncs or not.
C32_NilMeansNoError ==
    \A c \in RangeOf(seqLog) :
        CheckedVoid(cookies[c]) /\ returned[c].kind = "nil" =>
            \A e \in errLog : e.seq # cookies[c].Sequence

\* C32 for the error numbers that have a constructor
C32_NilMeansNoKnownError ==
    \A c \in RangeOf(seqLog) :
        CheckedVoid(cookies[c]) /\ returned[c].kind = "nil" =>
            \A e \in errLog : e.num \in newErrorFuncs => e.seq # cookies[c].Sequence

\* sendRequests waits for the answer to its round trip (line 272)
SubmitterWaits == sPc = "drainWait" /\ ~ENABLED sendRequests_drainWait

\* readResponses waits for room in eventChan (line 397)
ReceiverWaits == AsyncErrorAtHand /\ ~ENABLED readResponses_error

\* every application goroutine waits for room in reqChan (line 256)
ApplicationWaits ==
    \A t \in Threads :
        t <= conf.threads => tPc[t] = "made" /\ ~ENABLED newRequest(t)

\* C33: a round trip that the server answers is completed also when the
\* application reads no event: sendRequests, readResponses and the
\* application are never all three waiting, sendRequests for the answer to
\* the round trip, readResponses for room in eventChan and the application
\* for room in reqChan.
C33_NeverAllWaiting == ~(SubmitterWaits /\ ReceiverWaits /\ ApplicationWaits)

\* what was or will be given out for the frames read: the items given out
\* by WaitForEvent / PollForEvent, those in eventChan and those that the
\* detached senders hold
EventsOut ==
    Taken(yielded) \o eventChan
       \o [i \in 1..Len(SelectSeq(goSend, LAMBDA g : g.st = "send")) |->
              SelectSeq(goSend, LAMBDA g : g.st = "send")[i].val]

\* C34: each event readResponses decodes is given out by WaitForEvent /
\* PollForEvent once, and as the event of its frame: what goes through
\* eventChan is never an empty value and never the event of a frame twice,
\* also when eventChan is full and a detached sender is started.
C34_EventsAsDecoded ==
    /\ \A i \in 1..Len(EventsOut) : EventsOut[i] # Nil
    /\ \A i, j \in 1..Len(EventsOut) :
          i # j => EventsOut[i].tag # EventsOut[j].tag

\* C34 while eventChan has never been full
C34_EventsAsDecodedWithRoom == ~wasFull => C34_EventsAsDecoded

\* C35: readResponses never waits at a channel of a cookie: the cookie it
\* has taken from cookieChan was given nothing before, so the reply, error
\* or ping channel it sends to is empty, whether reply() / Check() is ever
\* called for the cookie or not.
C35_EndpointEmpty ==
    /\ rPc = "handle" =>
          /\ fate[rCk] = "new"
          /\ Held(cookies[rCk]) = 0
          /\ returned[rCk].kind \in {"none", "usage"}
    /\ rPc = "ping" =>
          /\ Held(cookies[rCk]) = 0
          /\ returned[rCk].kind \in {"none", "usage"}

\* C35 witness: two cookies hold what readResponses gave them, an error and
\* a reply, neither reply() nor Check() was called, and readResponses is
\* back at reading
C35_Witness ==
    /\ rPc = "read" /\ nFrames = 2
    /\ \E c, d \in 1..Len(cookies) :
          /\ Len(cookies[c].errorChan) = 1 /\ returned[c].kind = "none"
          /\ Len(cookies[d].replyChan) = 1 /\ returned[d].kind = "none"

\* id = base | v for a v that is not 0 and has no bit outside the mask
InsideMask(id) ==
    \E v \in 1..setup.ResourceIdMask :
        /\ BitAnd(v, setup.ResourceIdMask) = v
        /\ id = BitOr(setup.ResourceIdBase, v)

\* C36: every id that NewId returns with a nil error, before or after the
\* first error, is base | v with v not 0 and inside the mask, and no id is
\* returned with a nil error twice.
C36_IdsInsideMask ==
    /\ \A k \in 1..Len(xids) : ~xids[k].err => InsideMask(xids[k].id)
    /\ \A i, j \in 1..Len(xids) :
          i < j /\ ~xids[i].err /\ ~xids[j].err => xids[i].id # xids[j].id

\* C36, for the calls of NewId made before the first one that returns an error
C36_IdsInsideMaskBeforeError ==
    /\ \A k \in 1..Len(xids) :
          (\A h \in 1..k : ~xids[h].err) => InsideMask(xids[k].id)
    /\ \A i, j \in 1..Len(xids) :
          i < j /\ (\A h \in 1..j : ~xids[h].err) => xids[i].id # xids[j].id

\* cookie c belongs to a request with a reply that newRequest has handed to
\* reqChan
Submitted(c) ==
    /\ c \in AppCookies
    /\ cookies[c].hasReply
    /\ \A t \in Threads : tCk[t] # c

\* Reply() has returned for cookie c
ReplyDone(c) == c <= Len(returned) /\ returned[c].kind # "none"

\* C37: with a server that answers every request that has a reply, in the
\* order of the requests, with one reply or one error, a connection that
\* does not fail, an application that reads the events, and fair scheduling,
\* Reply() returns in the end for every submitted request that has a reply.
C37_ReplyReturns ==
    \A c \in 1..(2 * LiveReqs) :
        Submitted(c) ~> ReplyDone(c)

\* C37, unless an error frame with a number that has no constructor was read
C37_ReplyReturnsOrErrorDropped ==
    \A c \in 1..(2 * LiveReqs) :
        Submitted(c) ~> \/ ReplyDone(c)
                        \/ \E e \in errLog : e.num \notin newErrorFuncs

\* the calls of Close, those that have returned nil or are past the send of
\* nil, and those that have returned
CloseCalls == {k \in 1..Len(dLog) : dLog[k].op = "Close"}
CloseThrough ==
    {k \in CloseCalls : dLog[k].ret /\ dLog[k].err = "nil"}
    \cup {dCall[p].k : p \in {q \in DProcs : dCall[q].pc = "waitDone"}}
CloseReturned == {k \in CloseCalls : dLog[k].ret}

\* at most one call of Close gets through; the others return dNCErrClosed,
\* and they return only when one has got through and the server has ended
OneCloseGetsThrough ==
    /\ Cardinality(CloseThrough) <= 1
    /\ \A k \in CloseReturned : dLog[k].err \in {"nil", "dNCErrClosed"}
    /\ CloseReturned # {} => dnc.pc = "done" /\ Cardinality(CloseThrough) = 1

\* C38: of the calls of Close, one after the other or at the same time,
\* exactly one returns nil and every other one returns dNCErrClosed; every
\* call of Close returns; a server that has ended does nothing any more.
C38_CloseOnce ==
    /\ []OneCloseGetsThrough
    /\ [][dnc.pc = "done" => dnc' = dnc]_vars
    /\ \A p \in DProcs : (dCall[p].op = "Close") ~> (dCall[p].op # "Close")

\* C38 witness: three calls of Close have returned, one of them nil and two
\* dNCErrClosed
C38_Witness ==
    /\ Cardinality(CloseReturned) = 3
    /\ Cardinality({k \in CloseReturned : dLog[k].err = "nil"}) = 1
    /\ Cardinality({k \in CloseReturned : dLog[k].err = "dNCErrClosed"}) = 2

\* the calls made after done was closed or waiting in their select when it
\* was closed return (0, dNCErrClosed) for Write and (0, io.EOF) for Read
ClosedResults ==
    \A k \in 1..Len(dLog) :
        dLog[k].at # "open" /\ dLog[k].ret =>
            /\ dLog[k].op = "Write" =>
                  dLog[k].n = 0 /\ dLog[k].err = "dNCErrClosed"
            /\ dLog[k].op = "Read" =>
                  dLog[k].n = 0 /\ dLog[k].err = "io.EOF"

\* C39: whatever the read mode and the write mode, once the server is
\* closed Write returns (0, dNCErrClosed) and Read returns (0, io.EOF), and
\* neither waits; a Write held up by WriteLock and a Read held up by an
\* empty or locked buffer when the server is closed return the same.
C39_ClosedResults ==
    /\ []ClosedResults
    /\ \A p \in DProcs :
          (dnc.pc = "done" /\ dCall[p].op \in {"Write", "Read"})
              ~> (dCall[p].op = "none")

\* C39 witness: a Write that waited in its select when the server was closed
\* has returned dNCErrClosed, and a Read made after that has returned io.EOF
C39_Witness ==
    \E i, j \in 1..Len(dLog) :
        /\ dLog[i].op = "Write" /\ dLog[i].at = "blocked" /\ dLog[i].ret
        /\ dLog[i].err = "dNCErrClosed"
        /\ dLog[j].op = "Read" /\ dLog[j].at = "after" /\ dLog[j].ret
        /\ dLog[j].err = "io.EOF"

\* C39 witness, the Read that waited in its select when the server was
\* closed
C39_BlockedRead ==
    \E j \in 1..Len(dLog) :
        /\ dLog[j].op = "Read" /\ dLog[j].at = "blocked" /\ dLog[j].ret
        /\ dLog[j].err = "io.EOF"

\* the server is in the read mode that ReadError sets: reading was unlocked
\* and set to fail, and no call that sets the read mode is under way
ReadSetters == {"ReadLock", "ReadUnlock", "ReadError", "ReadSuccess"}
ReadFails ==
    /\ dnc.pc # "done"
    /\ dnc.errorRead /\ ~dnc.lockRead
    /\ \A p \in DProcs : dCall[p].op \notin ReadSetters

\* a call of Read waits in its select (line 188)
ReadWaits(p) == dCall[p].pc = "select" /\ dCall[p].op = "Read"

\* the server, in its select, receives from out
TakesReads == dnc.pc = "select" => dnc.out

\* lines 93-96: a read that the server lets fail returns (0, dNCErrRead) and
\* leaves the buffer as it is
FailedReadStep ==
    dnc.pc = "read" /\ dnc.errorRead /\ dnc'.pc = "select" =>
        /\ dnc'.buf = dnc.buf
        /\ dLog'[dCall[dnc.cur].k].n = 0
        /\ dLog'[dCall[dnc.cur].k].err = "dNCErrRead"

\* C40: ReadError unlocks reading, and from then on every call of Read,
\* waiting or new, is taken by the server at once and returns
\* (0, dNCErrRead); the buffer stays as it is.
C40_ReadErrorFailsReads ==
    /\ [](ReadFails /\ (\E p \in DProcs : ReadWaits(p)) => TakesReads)
    /\ [][FailedReadStep]_vars

\* C40, for a buffer that is not empty
C40_ReadErrorFailsReadsWithData ==
    /\ [](ReadFails /\ (\E p \in DProcs : ReadWaits(p)) /\ dnc.buf # <<>>
             => TakesReads)
    /\ [][FailedReadStep]_vars
====
